---- MODULE Spec2Model ----
(***************************************************************************)
(* A model of the RecipeDB backend (backend/crud.py, backend/main.py,      *)
(* backend/models.py, backend/database.py).                                *)
(*                                                                         *)
(* The relational store is the variable db, a record with one field per    *)
(* table.  Every HTTP handler is one action that runs the handler's code   *)
(* on db inside one session: what the code flushes goes to a session copy, *)
(* which replaces db at db.commit() and is discarded when the session is   *)
(* closed without a commit.  For the races, a handler is split at the      *)
(* point between its SELECTs and its INSERT/UPDATE + commit; the values it *)
(* read wait in inflight.                                                  *)
(*                                                                         *)
(* Text is a sequence of one-character strings, so that strip(), lower(),  *)
(* re.split() and the quantity pattern are computed, not assumed.          *)
(***************************************************************************)
EXTENDS Integers, Sequences, FiniteSets, Bags, TLC

VARIABLES db, last, inflight, now

vars == <<db, last, inflight, now>>

(***************************************************************************)
(* Text                                                                    *)
(***************************************************************************)

\* Python's None, kept apart from every text (texts hold one-character strings).
None == <<"None">>

UpperLetters == <<"A","B","C","D","E","F","G","H","I","J","K","L","M",
                  "N","O","P","Q","R","S","T","U","V","W","X","Y","Z">>

LowerLetters == <<"a","b","c","d","e","f","g","h","i","j","k","l","m",
                  "n","o","p","q","r","s","t","u","v","w","x","y","z">>

Digits == {"0","1","2","3","4","5","6","7","8","9"}

\* The characters of the model in code-point order (what Python's sorted() and
\* str comparison use): \n < space < , < . < 0..9 < : < ; < A..Z < a..z
CodeOrder == <<"\n"," ",",",".","0","1","2","3","4","5","6","7","8","9",":",";">>
             \o UpperLetters \o LowerLetters

CharCode(c) == CHOOSE i \in 1..Len(CodeOrder) : CodeOrder[i] = c

\* str.lower() on one character
LowerChar(c) ==
  IF \E i \in 1..Len(UpperLetters) : UpperLetters[i] = c
  THEN LowerLetters[CHOOSE i \in 1..Len(UpperLetters) : UpperLetters[i] = c]
  ELSE c

\* str.lower()
Lower(s) == [i \in 1..Len(s) |-> LowerChar(s[i])]

\* what str.strip() and the pattern \s take for whitespace
IsSpace(c) == c \in {" ", "\n"}

\* str.strip()
Strip(s) ==
  IF \A i \in 1..Len(s) : IsSpace(s[i]) THEN <<>>
  ELSE LET lo == CHOOSE i \in 1..Len(s) :
                   ~IsSpace(s[i]) /\ \A j \in 1..(i-1) : IsSpace(s[j])
           hi == CHOOSE i \in 1..Len(s) :
                   ~IsSpace(s[i]) /\ \A j \in (i+1)..Len(s) : IsSpace(s[j])
       IN SubSeq(s, lo, hi)

\* s < t for Python str: the first differing code point decides, a proper prefix is less
StrLess(s, t) ==
  \/ Len(s) < Len(t) /\ SubSeq(t, 1, Len(s)) = s
  \/ \E i \in 1..Len(s) :
       /\ i <= Len(t)
       /\ SubSeq(s, 1, i-1) = SubSeq(t, 1, i-1)
       /\ CharCode(s[i]) < CharCode(t[i])

RECURSIVE SortedFrom(_)
\* sorted(set(names)): the least element first
SortedFrom(S) ==
  IF S = {} THEN <<>>
  ELSE LET m == CHOOSE x \in S : \A y \in S \ {x} : StrLess(x, y)
       IN <<m>> \o SortedFrom(S \ {m})

\* set(xs) of a list
Range(xs) == {xs[i] : i \in 1..Len(xs)}

\* The element of a one-element set.  { F(x) : x \in {e} } evaluates e once and
\* binds x to its value, where a LET name is evaluated again at each use.
Only(S) == CHOOSE x \in S : TRUE

\* the class [,;:\n] of the split pattern
IsDelimiter(c) == c \in {",", ";", ":", "\n"}

RECURSIVE SplitFrom(_, _, _, _)
\* re.split(r"[,;:\n]+", s): a run of delimiters ends one piece
SplitFrom(s, i, cur, out) ==
  IF i > Len(s) THEN Append(out, cur)
  ELSE IF IsDelimiter(s[i])
       THEN IF i > 1 /\ IsDelimiter(s[i-1])
            THEN SplitFrom(s, i+1, cur, out)
            ELSE SplitFrom(s, i+1, <<>>, Append(out, cur))
       ELSE SplitFrom(s, i+1, Append(cur, s[i]), out)

\* [f(x) for x in xs if keep]
SelectNonEmpty(xs) == SelectSeq(xs, LAMBDA t : t # <<>>)

\* crud._split_terms: split, strip each piece, drop the empty ones
_split_terms(query) ==
  Only({ SelectNonEmpty([i \in 1..Len(pieces) |-> Strip(pieces[i])])
           : pieces \in {SplitFrom(query, 1, <<>>, <<>>)} })

\* crud._split_names
_split_names(value) == _split_terms(value)

(***************************************************************************)
(* The store (models.py) and the session (database.py)                     *)
(***************************************************************************)

\* Bounds of the model: rows a table may hold, requests that may be in flight.
MaxUsers == 2

MaxIngredients == 2

MaxTags == 2

MaxRecipes == 1

MaxComments == 1

MaxInflight == 2

\* Base.metadata.create_all on an empty database: every table empty, every id
\* sequence at its first value.
EmptyDb ==
  [ users |-> {},               \* User: id, username, is_admin
    ingredients |-> {},         \* Ingredient: id, name
    tags |-> {},                \* Tag: id, name
    recipes |-> {},             \* Recipe: id, title (the scalar fields)
    recipe_ingredients |-> {},  \* RecipeIngredient: recipe_id, ingredient_id, quantity
    recipetags |-> {},          \* RecipeTag: recipe_id, tag_id
    recipe_authors |-> {},      \* RecipeAuthor: recipe_id, user_id
    recipe_favorites |-> EmptyBag,  \* RecipeFavorite: recipe_id, user_id
    recipe_comments |-> {},     \* RecipeComment: id, recipe_id
    comment_authors |-> {},     \* CommentAuthor: comment_id, user_id
    comment_likes |-> EmptyBag, \* CommentLike: comment_id, user_id
    online_device_presence |-> {},
                \* OnlineDevicePresence: device_id, user_id, user_agent, last_seen_at
    user_seq |-> 1, ingredient_seq |-> 1, tag_seq |-> 1,
    recipe_seq |-> 1, comment_seq |-> 1 ]

\* SessionClose with the flushed rows left in the store, as under autocommit
SessionCloseKeepsFlushed(committed, session) == session

\* database.get_db: the session is closed on every exit path; what was flushed
\* and not committed is rolled back, the store keeps its committed state.
SessionClose(committed, session) == committed

\* db.commit(): the session's state becomes the store's.
SessionCommit(committed, session) == session

\* What a handler hands back: the store it leaves, the HTTP status, and the
\* message (a kind, and the names the message lists).
Response(d, status, detail, names) ==
  [db |-> d, status |-> status, detail |-> detail, names |-> names]

\* An exception leaves the handler: the session is closed without a commit.
Raise(committed, session, status, detail, names) ==
  Response(SessionClose(committed, session), status, detail, names)

\* The handler returns after db.commit().
Return(committed, session, detail) ==
  Response(SessionCommit(committed, session), 200, detail, <<>>)

\* User.username: unique=True (the stored name is compared as it is)
UsernameUniqueOk(rows) ==
  \A a \in rows : \A b \in rows : a.username = b.username => a = b

\* Ingredient: Index("ix_ingredients_name_lower", func.lower(name), unique=True)
IngredientNameIndexOk(rows) ==
  \A a \in rows : \A b \in rows : Lower(a.name) = Lower(b.name) => a = b

\* a tags table without its unique index: any rows pass
TagNameIndexMissing(rows) == TRUE

\* Tag: Index("ix_tags_name_lower", func.lower(name), unique=True)
TagNameIndexOk(rows) ==
  \A a \in rows : \A b \in rows : Lower(a.name) = Lower(b.name) => a = b

\* a recipe_favorites table without its primary key: any rows pass
RecipeFavoritePkMissing(rows) == TRUE

\* RecipeFavorite: primary key (recipe_id, user_id)
RecipeFavoritePkOk(rows) ==
  \A r \in BagToSet(rows) : CopiesIn(r, rows) <= 1

\* CommentLike: composite uniqueness on (comment_id, user_id)
CommentLikePkOk(rows) ==
  \A r \in BagToSet(rows) : CopiesIn(r, rows) <= 1

(***************************************************************************)
(* Handlers.  Each takes the store d it writes to and the store seen that  *)
(* its SELECTs were answered from: the same when the request runs alone,   *)
(* an earlier one when other requests committed in between.                *)
(***************************************************************************)

\* Query.first(): a row of the result (the unique indexes leave at most one)
First(rows) == CHOOSE r \in rows : TRUE

\* crud.get_user_by_username: the rows whose lower(username) is the stripped,
\* lower-cased argument
get_user_by_username(seen, username) ==
  {u \in seen.users : Lower(u.username) = Lower(Strip(username))}

\* register_user with every new user made an admin
register_user_always_admin(d, seen, username) ==
  LET normalized == Lower(Strip(username))
      user == [id |-> d.user_seq, username |-> normalized, is_admin |-> TRUE]
      session == [d EXCEPT !.users = @ \cup {user}, !.user_seq = @ + 1]
  IN IF get_user_by_username(seen, normalized) # {}
     THEN Raise(d, d, 409, "username_exists", <<>>)
     ELSE IF ~UsernameUniqueOk(session.users)
          THEN Raise(d, session, 500, "integrity_error", <<>>)
          ELSE Return(d, session, "registered")

\* crud.register_user: None (409 in main.register) when the name is taken, else
\* the new user is an admin exactly when the SELECT found no admin
register_user(d, seen, username) ==
  LET normalized == Lower(Strip(username))
      has_admin == \E u \in seen.users : u.is_admin
      user == [id |-> d.user_seq, username |-> normalized,
               is_admin |-> ~has_admin]
      session == [d EXCEPT !.users = @ \cup {user}, !.user_seq = @ + 1]
  IN IF get_user_by_username(seen, normalized) # {}
     THEN Raise(d, d, 409, "username_exists", <<>>)
     ELSE IF ~UsernameUniqueOk(session.users)
          THEN Raise(d, session, 500, "integrity_error", <<>>)
          ELSE Return(d, session, "registered")

\* main.register: the two length checks, then crud.register_user
register(d, seen, username, password) ==
  IF Len(Strip(username)) < 3
  THEN Raise(d, d, 400, "username_too_short", <<>>)
  ELSE IF Len(password) < 6
       THEN Raise(d, d, 400, "password_too_short", <<>>)
       ELSE register_user(d, seen, username)

\* main.ensure_at_least_one_admin: with no admin counted, the user of the least
\* id (if any) is made admin
ensure_at_least_one_admin(d, seen) ==
  LET admin_count == Cardinality({u \in seen.users : u.is_admin})
      ids == {u.id : u \in seen.users}
  IN IF admin_count > 0 \/ ids = {} THEN d
     ELSE LET first_user_id == CHOOSE i \in ids : \A k \in ids : i <= k
          IN [d EXCEPT !.users =
                {IF u.id = first_user_id THEN [u EXCEPT !.is_admin = TRUE] ELSE u
                   : u \in @}]

\* main.require_admin: 403 unless the caller's row has is_admin
require_admin(current_user) == current_user.is_admin

(***************************************************************************)
(* Quantities and names (crud._normalize_quantity, _extract_unique_names,  *)
(* _extract_ingredient_entries)                                            *)
(***************************************************************************)

\* crud.VALID_QUANTITY_UNITS, the alternatives of QUANTITY_PATTERN
VALID_QUANTITY_UNITS ==
  { <<"m","l">>, <<"c","l">>, <<"d","l">>, <<"l">>, <<"m","g">>, <<"g">>,
    <<"k","g">>, <<"s","t">> }

\* \d+
IsDigits(s) == Len(s) > 0 /\ \A i \in 1..Len(s) : s[i] \in Digits

\* \d+(?:[\.,]\d+)?
IsNumber(s) ==
  \/ IsDigits(s)
  \/ \E k \in 1..Len(s) :
       /\ s[k] \in {".", ","}
       /\ IsDigits(SubSeq(s, 1, k-1))
       /\ IsDigits(SubSeq(s, k+1, Len(s)))

\* QUANTITY_PATTERN.match(compact), re.IGNORECASE: the units (group 1) with which
\* the whole of compact is a number, optional whitespace, and the unit
QuantityMatch(compact) ==
  { unit \in VALID_QUANTITY_UNITS :
      /\ Len(compact) > Len(unit)
      /\ Lower(SubSeq(compact, Len(compact) - Len(unit) + 1, Len(compact))) = unit
      /\ \E k \in 0..(Len(compact) - Len(unit)) :
           /\ IsNumber(SubSeq(compact, 1, k))
           /\ \A j \in (k+1)..(Len(compact) - Len(unit)) : IsSpace(compact[j]) }

\* a compact that keeps its whitespace
RemoveSpacesKept(s) == s

\* re.sub(r"\s+", "", value)
RemoveSpaces(s) == SelectSeq(s, LAMBDA c : ~IsSpace(c))

\* a text that keeps its commas
CommaKept(s) == s

\* str.replace(",", ".")
CommaToDot(s) == [i \in 1..Len(s) |-> IF s[i] = "," THEN "." ELSE s[i]]

\* crud._normalize_quantity: [ok, value]; ok is FALSE where the code raises
_normalize_quantity(raw_quantity) ==
  LET Matched(value, compact, units) ==
        IF value = <<>> THEN [ok |-> TRUE, value |-> None]
        ELSE IF units = {} THEN [ok |-> FALSE, value |-> None]
        ELSE LET unit == CHOOSE u \in units : TRUE
                 number == SubSeq(compact, 1, Len(compact) - Len(unit))
             IN [ok |-> TRUE, value |-> CommaToDot(number \o <<" ">> \o unit)]
  IN Only({ Only({ Matched(value, compact, QuantityMatch(compact))
                     : compact \in {RemoveSpaces(value)} })
              : value \in {Lower(Strip(IF raw_quantity = None THEN <<>>
                                        ELSE raw_quantity))} })

RECURSIVE FlattenNames(_)
\* the first loop of _extract_unique_names: every split, stripped, lower-cased,
\* non-empty name of every item, in order
FlattenNames(items) ==
  IF items = <<>> THEN <<>>
  ELSE Only({ SelectNonEmpty([i \in 1..Len(raws) |-> Lower(Strip(raws[i]))])
                : raws \in {_split_names(Head(items).name)} })
       \o FlattenNames(Tail(items))

RECURSIVE DuplicatesEveryTime(_, _, _)
\* a second loop that lists a name at each of its repetitions
DuplicatesEveryTime(names, seen, duplicates) ==
  IF names = <<>> THEN duplicates
  ELSE DuplicatesEveryTime(
         Tail(names), seen \cup {Head(names)},
         IF Head(names) \in seen THEN Append(duplicates, Head(names))
         ELSE duplicates)

RECURSIVE DuplicatesFrom(_, _, _)
\* the second loop: a name already seen and not yet listed is listed
DuplicatesFrom(names, seen, duplicates) ==
  IF names = <<>> THEN duplicates
  ELSE LET name == Head(names)
       IN DuplicatesFrom(
            Tail(names), seen \cup {name},
            IF name \in seen /\ name \notin Range(duplicates)
            THEN Append(duplicates, name) ELSE duplicates)

\* crud._extract_unique_names: [ok, names, duplicates]
_extract_unique_names(items) ==
  Only({ Only({ [ok |-> duplicates = <<>>, names |-> names,
                 duplicates |-> duplicates]
                  : duplicates \in {DuplicatesFrom(names, {}, <<>>)} })
           : names \in {FlattenNames(items)} })

RECURSIVE FlattenEntries(_)
\* the first loop of _extract_ingredient_entries: (name, quantity) pairs, the
\* item's normalized quantity on each of its names
FlattenEntries(items) ==
  IF items = <<>> THEN <<>>
  ELSE Only({ [i \in 1..Len(names) |-> [name |-> names[i], quantity |-> quantity]]
                : quantity \in {_normalize_quantity(Head(items).quantity).value},
                  names \in {FlattenNames(<<Head(items)>>)} })
       \o FlattenEntries(Tail(items))

\* crud._extract_ingredient_entries: [ok, detail, entries, duplicates]; a
\* malformed quantity raises in the first loop, before the duplicates are looked for
_extract_ingredient_entries(items) ==
  LET Checked(entries, duplicates) ==
        IF duplicates # <<>>
        THEN [ok |-> FALSE, detail |-> "duplicate_ingredients",
              entries |-> <<>>, duplicates |-> duplicates]
        ELSE [ok |-> TRUE, detail |-> "ok", entries |-> entries,
              duplicates |-> <<>>]
  IN IF \E i \in 1..Len(items) : ~_normalize_quantity(items[i].quantity).ok
     THEN [ok |-> FALSE, detail |-> "bad_quantity", entries |-> <<>>,
           duplicates |-> <<>>]
     ELSE Only({ Only({ Checked(entries, duplicates)
                          : duplicates \in
                              {DuplicatesFrom([i \in 1..Len(entries) |-> entries[i].name],
                                              {}, <<>>)} })
                   : entries \in {FlattenEntries(items)} })

(***************************************************************************)
(* The catalog: ingredients and tags                                       *)
(***************************************************************************)

\* SELECT ... FROM ingredients WHERE lower(name) = :name
IngredientsNamed(seen, name) == {i \in seen.ingredients : Lower(i.name) = name}

\* SELECT ... FROM tags WHERE lower(name) = :name
TagsNamed(seen, name) == {t \in seen.tags : Lower(t.name) = name}

\* crud.get_tags
get_tags(d) == d.tags

\* crud.create_ingredient, called by main.create_ingredient with no handler for
\* its ValueError: every refusal leaves as an unhandled exception (500)
create_ingredient(d, seen, name) ==
  LET normalized_name == Lower(Strip(name))
      db_ingredient == [id |-> d.ingredient_seq, name |-> normalized_name]
      session == [d EXCEPT !.ingredients = @ \cup {db_ingredient},
                           !.ingredient_seq = @ + 1]
  IN IF normalized_name = <<>>
     THEN Raise(d, d, 500, "name_required", <<>>)
     ELSE IF IngredientsNamed(seen, normalized_name) # {}
          THEN Raise(d, d, 500, "already_exists", <<>>)
          ELSE IF ~IngredientNameIndexOk(session.ingredients)
               THEN Raise(d, session, 500, "integrity_error", <<>>)
               ELSE Return(d, session, "created")

\* crud.update_ingredient (no route calls it: None is reported as 404, an
\* exception as 500)
update_ingredient(d, seen, ingredient_id, name) ==
  LET normalized_name == Lower(Strip(name))
      duplicate == {i \in IngredientsNamed(seen, normalized_name) :
                      i.id # ingredient_id}
      session == [d EXCEPT !.ingredients =
                    {IF i.id = ingredient_id
                     THEN [i EXCEPT !.name = normalized_name] ELSE i : i \in @}]
  IN IF ~\E i \in seen.ingredients : i.id = ingredient_id
     THEN Raise(d, d, 404, "not_found", <<>>)
     ELSE IF normalized_name = <<>>
          THEN Raise(d, d, 500, "name_required", <<>>)
          ELSE IF duplicate # {}
               THEN Raise(d, d, 500, "already_exists", <<>>)
               ELSE IF ~IngredientNameIndexOk(session.ingredients)
                    THEN Raise(d, session, 500, "integrity_error", <<>>)
                    ELSE Return(d, session, "updated")

\* crud.create_tag: no SELECT; the stripped, lower-cased name is inserted and the
\* unique index decides
create_tag(d, name) ==
  LET db_tag == [id |-> d.tag_seq, name |-> Lower(Strip(name))]
      session == [d EXCEPT !.tags = @ \cup {db_tag}, !.tag_seq = @ + 1]
  IN IF ~TagNameIndexOk(session.tags)
     THEN Raise(d, session, 500, "integrity_error", <<>>)
     ELSE Return(d, session, "created")

(***************************************************************************)
(* Recipe writes (crud.create_recipe, crud.update_recipe and their routes) *)
(***************************************************************************)

\* MissingIngredients stopping at the first missing name
MissingIngredientsFirstOnly(seen, entries) ==
  LET missing == SelectSeq([i \in 1..Len(entries) |-> entries[i].name],
                           LAMBDA name : IngredientsNamed(seen, name) = {})
  IN IF missing = <<>> THEN <<>> ELSE <<Head(missing)>>

\* the loop over ingredient_entries: the names with no catalog row, in order
MissingIngredients(seen, entries) ==
  SelectSeq([i \in 1..Len(entries) |-> entries[i].name],
            LAMBDA name : IngredientsNamed(seen, name) = {})

\* ingredient_by_name: the catalog row found for each name of the entries
IngredientByName(seen, entries) ==
  [name \in {e.name : e \in Range(entries)} |-> First(IngredientsNamed(seen, name))]

\* the loop over tag_names: the names with no Tag row, for which one is added
NewTagNames(seen, tag_names) ==
  SelectSeq(tag_names, LAMBDA name : TagsNamed(seen, name) = {})

\* NewTags with the db.add of the new Tag forgotten
NewTagsNotAdded(session, names) == {}

\* Tag(name=name); db.add; db.flush for each new name, ids from the sequence
NewTags(session, names) ==
  {[id |-> session.tag_seq + k - 1, name |-> names[k]] : k \in 1..Len(names)}

\* db_recipe.ingredients = ingredients; db.flush(): the association rows of the
\* recipe become those of the resolved ingredients; a row that stays keeps its
\* quantity, a new row has none
AssociateIngredients(session, recipe_id, ingredient_ids) ==
  LET mine == {x \in session.recipe_ingredients : x.recipe_id = recipe_id}
      kept == {x \in mine : x.ingredient_id \in ingredient_ids}
      added == {[recipe_id |-> recipe_id, ingredient_id |-> i, quantity |-> None]
                  : i \in ingredient_ids \ {x.ingredient_id : x \in kept}}
  IN [session EXCEPT !.recipe_ingredients = (@ \ mine) \cup kept \cup added]

\* db_recipe.tags = tags; db.flush()
AssociateTags(session, recipe_id, tag_ids) ==
  [session EXCEPT !.recipetags =
     {x \in @ : x.recipe_id # recipe_id}
     \cup {[recipe_id |-> recipe_id, tag_id |-> t] : t \in tag_ids}]

\* _apply_recipe_ingredient_quantities that keeps the stored quantity of a row
\* whose entry has none
_apply_recipe_ingredient_quantities_merging(session, recipe_id, entries, by_name) ==
  LET Quantity(row) ==
        LET hits == {i \in 1..Len(entries) :
                       /\ entries[i].name \in DOMAIN by_name
                       /\ by_name[entries[i].name].id = row.ingredient_id
                       /\ entries[i].quantity # None}
        IN IF row.recipe_id # recipe_id \/ hits = {} THEN row.quantity
           ELSE entries[CHOOSE i \in hits : \A k \in hits : k <= i].quantity
  IN [session EXCEPT !.recipe_ingredients =
        {[row EXCEPT !.quantity = Quantity(row)] : row \in @}]

\* crud._apply_recipe_ingredient_quantities: for each entry whose name resolved,
\* the association row of (recipe, ingredient), when there is one, gets the
\* entry's quantity
_apply_recipe_ingredient_quantities(session, recipe_id, entries, by_name) ==
  LET Quantity(row) ==
        LET hits == {i \in 1..Len(entries) :
                       /\ entries[i].name \in DOMAIN by_name
                       /\ by_name[entries[i].name].id = row.ingredient_id}
        IN IF row.recipe_id # recipe_id \/ hits = {} THEN row.quantity
           ELSE entries[CHOOSE i \in hits : \A k \in hits : k <= i].quantity
  IN [session EXCEPT !.recipe_ingredients =
        {[row EXCEPT !.quantity = Quantity(row)] : row \in @}]

\* recipe_ingredients.ingredient_id and recipetags.tag_id reference existing rows
CatalogForeignKeysOk(session) ==
  /\ \A x \in session.recipe_ingredients :
       \E i \in session.ingredients : i.id = x.ingredient_id
  /\ \A x \in session.recipetags : \E t \in session.tags : t.id = x.tag_id

\* The part create_recipe and update_recipe share once the entries and the tag
\* names are extracted (crud.py 175-203, 228-256): resolve the ingredients,
\* resolve or add the tags, write the associations and the quantities.
\* [ok, session, status, detail, names]
Resolve(seen, session, recipe_id, extracted, tagged) ==
  LET entries == extracted.entries
      Failed(status, detail, names) ==
        [ok |-> FALSE, session |-> session, status |-> status,
         detail |-> detail, names |-> names]
      Written(by_name, new_names, new_tags) ==
        _apply_recipe_ingredient_quantities(
          AssociateTags(
            AssociateIngredients(
              [session EXCEPT !.tags = @ \cup new_tags,
                              !.tag_seq = @ + Len(new_names)],
              recipe_id, {by_name[n].id : n \in DOMAIN by_name}),
            recipe_id,
            {First(TagsNamed(seen, n)).id
               : n \in Range(tagged.names) \ Range(new_names)}
            \cup {t.id : t \in new_tags}),
          recipe_id, entries, by_name)
      Checked(written) ==
        IF ~TagNameIndexOk(written.tags) \/ ~CatalogForeignKeysOk(written)
        THEN Failed(500, "integrity_error", <<>>)
        ELSE [ok |-> TRUE, session |-> written, status |-> 200,
              detail |-> "ok", names |-> <<>>]
  IN IF ~extracted.ok
     THEN Failed(400, extracted.detail, extracted.duplicates)
     ELSE Only({
       IF missing # <<>>
       THEN Failed(400, "unknown_ingredients", SortedFrom(Range(missing)))
       ELSE IF ~tagged.ok
            THEN Failed(400, "duplicate_tags", tagged.duplicates)
            ELSE Only({ Checked(written)
                   : written \in
                       { Written(by_name, new_names, NewTags(session, new_names))
                           : by_name \in {IngredientByName(seen, entries)},
                             new_names \in {NewTagNames(seen, tagged.names)} } })
       : missing \in {MissingIngredients(seen, entries)} })

\* crud.py 174-203 and 227-256: _extract_ingredient_entries first, so a malformed
\* quantity or a repeated name is reported before any name is looked up
ResolveAndAssociate(d, seen, session, recipe_id, recipe) ==
  Only({ Resolve(seen, session, recipe_id, extracted, tagged)
           : extracted \in {_extract_ingredient_entries(recipe.ingredients)},
             tagged \in {_extract_unique_names(recipe.tags)} })

\* crud.create_recipe under main.create_recipe (any authenticated user; a
\* ValueError is answered 400): the Recipe row is added and flushed first, the
\* author link last, then the commit
create_recipe(d, seen, recipe, user_id) ==
  LET db_recipe == [id |-> d.recipe_seq, title |-> recipe.title,
                    description |-> recipe.description]
      flushed == [d EXCEPT !.recipes = @ \cup {db_recipe}, !.recipe_seq = @ + 1]
      Authored(session) ==
        [session EXCEPT !.recipe_authors =
           @ \cup {[recipe_id |-> db_recipe.id, user_id |-> user_id]}]
  IN Only({ IF ~r.ok THEN Raise(d, r.session, r.status, r.detail, r.names)
            ELSE Return(d, Authored(r.session), "created")
              : r \in {ResolveAndAssociate(d, seen, flushed, db_recipe.id, recipe)} })

\* is_recipe_owner answering for any recipe with an author, whoever it is
is_recipe_owner_of_any(seen, recipe_id, user_id) ==
  \E a \in seen.recipe_authors : a.recipe_id = recipe_id

\* crud.is_recipe_owner
is_recipe_owner(seen, recipe_id, user_id) ==
  \E a \in seen.recipe_authors : a.recipe_id = recipe_id /\ a.user_id = user_id

\* update_recipe that drops the recipe's author link
update_recipe_unauthoring(d, seen, recipe_id, recipe) ==
  LET modified == [d EXCEPT !.recipe_authors =
                     {a \in @ : a.recipe_id # recipe_id}]
  IN IF ~\E x \in seen.recipes : x.id = recipe_id
     THEN Raise(d, d, 404, "recipe_not_found", <<>>)
     ELSE Only({ IF ~r.ok THEN Raise(d, r.session, r.status, r.detail, r.names)
                 ELSE Return(d, r.session, "updated")
                   : r \in {ResolveAndAssociate(d, seen, modified, recipe_id, recipe)} })

\* crud.update_recipe: None when the recipe is not found; the scalar fields are
\* set on the loaded row before anything is validated
update_recipe(d, seen, recipe_id, recipe) ==
  LET modified == [d EXCEPT !.recipes =
                     {IF x.id = recipe_id
                      THEN [x EXCEPT !.title = recipe.title,
                                     !.description = recipe.description]
                      ELSE x : x \in @}]
  IN IF ~\E x \in seen.recipes : x.id = recipe_id
     THEN Raise(d, d, 404, "recipe_not_found", <<>>)
     ELSE Only({ IF ~r.ok THEN Raise(d, r.session, r.status, r.detail, r.names)
                 ELSE Return(d, r.session, "updated")
                   : r \in {ResolveAndAssociate(d, seen, modified, recipe_id, recipe)} })

\* main.update_recipe: 404 for an unknown recipe, 403 for a caller who is neither
\* an admin nor the recipe's owner, then crud.update_recipe
main_update_recipe(d, seen, recipe_id, recipe, current_user) ==
  IF ~\E x \in seen.recipes : x.id = recipe_id
  THEN Raise(d, d, 404, "recipe_not_found", <<>>)
  ELSE IF ~current_user.is_admin /\ ~is_recipe_owner(seen, recipe_id, current_user.id)
       THEN Raise(d, d, 403, "not_owner", <<>>)
       ELSE update_recipe(d, seen, recipe_id, recipe)

(***************************************************************************)
(* Favorites, comments and comment likes                                   *)
(***************************************************************************)

\* a favorite row
Favorite(recipe_id, user_id) == [recipe_id |-> recipe_id, user_id |-> user_id]

\* a comment-like row
Like(comment_id, user_id) == [comment_id |-> comment_id, user_id |-> user_id]

\* a recipe_favorites table without its foreign key to recipes: any rows pass
FavoriteForeignKeyMissing(session) == TRUE

\* recipe_favorites.recipe_id references an existing recipe
FavoriteForeignKeyOk(session) ==
  \A f \in BagToSet(session.recipe_favorites) :
    \E x \in session.recipes : x.id = f.recipe_id

\* comment_likes.comment_id references an existing comment
LikeForeignKeyOk(session) ==
  \A k \in BagToSet(session.comment_likes) :
    \E c \in session.recipe_comments : c.id = k.comment_id

\* add_recipe_favorite without its SELECT for an existing row: always inserts
add_recipe_favorite_unchecked(d, seen, recipe_id, user_id) ==
  LET session == [d EXCEPT !.recipe_favorites =
                    @ (+) SetToBag({Favorite(recipe_id, user_id)})]
  IN IF ~\E x \in seen.recipes : x.id = recipe_id
     THEN Raise(d, d, 404, "recipe_not_found", <<>>)
     ELSE IF ~RecipeFavoritePkOk(session.recipe_favorites)
             \/ ~FavoriteForeignKeyOk(session)
          THEN Raise(d, session, 500, "integrity_error", <<>>)
          ELSE Return(d, session, "favorite_added")

\* crud.add_recipe_favorite under main.add_favorite: None (404) for an unknown
\* recipe; the row is inserted only when the SELECT found none
add_recipe_favorite(d, seen, recipe_id, user_id) ==
  LET existing == BagIn(Favorite(recipe_id, user_id), seen.recipe_favorites)
      session == [d EXCEPT !.recipe_favorites =
                    @ (+) SetToBag({Favorite(recipe_id, user_id)})]
  IN IF ~\E x \in seen.recipes : x.id = recipe_id
     THEN Raise(d, d, 404, "recipe_not_found", <<>>)
     ELSE IF existing THEN Return(d, d, "already_favorite")
          ELSE IF ~RecipeFavoritePkOk(session.recipe_favorites)
                  \/ ~FavoriteForeignKeyOk(session)
               THEN Raise(d, session, 500, "integrity_error", <<>>)
               ELSE Return(d, session, "favorite_added")

\* crud.remove_recipe_favorite under main.remove_favorite: the same answer
\* whether or not a row was found
remove_recipe_favorite(d, seen, recipe_id, user_id) ==
  LET favorite == BagIn(Favorite(recipe_id, user_id), seen.recipe_favorites)
      session == [d EXCEPT !.recipe_favorites =
                    @ (-) SetToBag({Favorite(recipe_id, user_id)})]
  IN IF ~favorite THEN Return(d, d, "no_favorite")
     ELSE Return(d, session, "favorite_removed")

\* crud.create_recipe_comment under main.add_recipe_comment: 404 for an unknown
\* recipe, 400 for blank content; the comment and its author link are committed
\* together
create_recipe_comment(d, seen, recipe_id, content, user_id) ==
  LET db_comment == [id |-> d.comment_seq, recipe_id |-> recipe_id,
                     content |-> Strip(content)]
      session == [d EXCEPT
                    !.recipe_comments = @ \cup {db_comment},
                    !.comment_authors =
                      @ \cup {[comment_id |-> db_comment.id, user_id |-> user_id]},
                    !.comment_seq = @ + 1]
  IN IF ~\E x \in seen.recipes : x.id = recipe_id
     THEN Raise(d, d, 404, "recipe_not_found", <<>>)
     ELSE IF Strip(content) = <<>>
          THEN Raise(d, d, 400, "content_required", <<>>)
          ELSE IF ~\E x \in session.recipes : x.id = recipe_id
               THEN Raise(d, session, 500, "integrity_error", <<>>)
               ELSE Return(d, session, "commented")

\* SELECT id FROM recipe_comments WHERE id = :comment_id AND recipe_id = :recipe_id
CommentExists(seen, recipe_id, comment_id) ==
  \E c \in seen.recipe_comments : c.id = comment_id /\ c.recipe_id = recipe_id

\* add_comment_like without its SELECT for an existing row: always inserts
add_comment_like_unchecked(d, seen, recipe_id, comment_id, user_id) ==
  LET session == [d EXCEPT !.comment_likes =
                    @ (+) SetToBag({Like(comment_id, user_id)})]
  IN IF ~CommentExists(seen, recipe_id, comment_id)
     THEN Raise(d, d, 404, "comment_not_found", <<>>)
     ELSE IF ~CommentLikePkOk(session.comment_likes)
             \/ ~LikeForeignKeyOk(session)
          THEN Raise(d, session, 500, "integrity_error", <<>>)
          ELSE Return(d, session, "like_added")

\* crud.add_comment_like: None (404 in main.add_comment_like) when the comment is
\* not one of the recipe; the row is inserted only when the SELECT found none
add_comment_like(d, seen, recipe_id, comment_id, user_id) ==
  LET existing == BagIn(Like(comment_id, user_id), seen.comment_likes)
      session == [d EXCEPT !.comment_likes =
                    @ (+) SetToBag({Like(comment_id, user_id)})]
  IN IF ~CommentExists(seen, recipe_id, comment_id)
     THEN Raise(d, d, 404, "comment_not_found", <<>>)
     ELSE IF existing THEN Return(d, d, "already_liked")
          ELSE IF ~CommentLikePkOk(session.comment_likes)
                  \/ ~LikeForeignKeyOk(session)
               THEN Raise(d, session, 500, "integrity_error", <<>>)
               ELSE Return(d, session, "like_added")

\* crud.remove_comment_like: None (404) when the comment is not one of the
\* recipe; a like row that is found is deleted
remove_comment_like(d, seen, recipe_id, comment_id, user_id) ==
  LET like == BagIn(Like(comment_id, user_id), seen.comment_likes)
      session == [d EXCEPT !.comment_likes =
                    @ (-) SetToBag({Like(comment_id, user_id)})]
  IN IF ~CommentExists(seen, recipe_id, comment_id)
     THEN Raise(d, d, 404, "comment_not_found", <<>>)
     ELSE IF ~like THEN Return(d, d, "no_like")
          ELSE Return(d, session, "like_removed")

(***************************************************************************)
(* Deletions (crud.delete_recipe, crud.delete_recipe_comment,              *)
(* crud.delete_ingredient and their routes)                                *)
(***************************************************************************)

\* the rows of a bag that satisfy Keep
BagSelect(B, Keep(_)) == [x \in {y \in DOMAIN B : Keep(y)} |-> B[x]]

\* recipe_authors.recipe_id, recipe_comments.recipe_id,
\* recipe_ingredients.recipe_id and recipetags.recipe_id reference an existing
\* recipe; comment_authors.comment_id references an existing comment
RecipeForeignKeysOk(session) ==
  LET recipe_ids == {x.id : x \in session.recipes}
  IN /\ \A a \in session.recipe_authors : a.recipe_id \in recipe_ids
     /\ \A c \in session.recipe_comments : c.recipe_id \in recipe_ids
     /\ \A x \in session.recipe_ingredients : x.recipe_id \in recipe_ids
     /\ \A x \in session.recipetags : x.recipe_id \in recipe_ids
     /\ \A a \in session.comment_authors :
          \E c \in session.recipe_comments : c.id = a.comment_id

\* every foreign key a DELETE of a recipe, a comment or an ingredient can break
DeleteForeignKeysOk(session) ==
  /\ RecipeForeignKeysOk(session)
  /\ FavoriteForeignKeyOk(session)
  /\ LikeForeignKeyOk(session)
  /\ CatalogForeignKeysOk(session)

\* crud.delete_recipe under main.delete_recipe: None (404) for an unknown recipe.
\* The comments are those loaded with the recipe; the bulk DELETEs and the
\* association rows removed at flush act on the store as it is then.
delete_recipe(d, seen, recipe_id) ==
  LET comment_ids == {c.id : c \in {x \in seen.recipe_comments :
                                       x.recipe_id = recipe_id}}
      session ==
        [d EXCEPT
           !.comment_likes = BagSelect(@, LAMBDA k : k.comment_id \notin comment_ids),
           !.comment_authors = {a \in @ : a.comment_id \notin comment_ids},
           !.recipe_favorites = BagSelect(@, LAMBDA f : f.recipe_id # recipe_id),
           !.recipe_authors = {a \in @ : a.recipe_id # recipe_id},
           !.recipe_comments = {c \in @ : c.id \notin comment_ids},
           !.recipe_ingredients = {x \in @ : x.recipe_id # recipe_id},
           !.recipetags = {x \in @ : x.recipe_id # recipe_id},
           !.recipes = {x \in @ : x.id # recipe_id}]
  IN IF ~\E x \in seen.recipes : x.id = recipe_id
     THEN Raise(d, d, 404, "recipe_not_found", <<>>)
     ELSE IF ~DeleteForeignKeysOk(session)
          THEN Raise(d, session, 500, "integrity_error", <<>>)
          ELSE Return(d, session, "recipe_deleted")

\* main.delete_recipe: require_admin, then crud.delete_recipe
main_delete_recipe(d, seen, recipe_id, current_user) ==
  IF ~require_admin(current_user)
  THEN Raise(d, d, 403, "admin_required", <<>>)
  ELSE delete_recipe(d, seen, recipe_id)

\* is_comment_owner that takes any user for the author of a comment that has one
is_comment_owner_of_any(seen, comment_id, user_id) ==
  \E a \in seen.comment_authors : a.comment_id = comment_id

\* crud.is_comment_owner
is_comment_owner(seen, comment_id, user_id) ==
  \E a \in seen.comment_authors : a.comment_id = comment_id /\ a.user_id = user_id

\* crud.delete_recipe_comment: None when the comment is not one of the recipe;
\* else its likes, its author link and the comment are deleted
delete_recipe_comment(d, seen, recipe_id, comment_id) ==
  LET session ==
        [d EXCEPT
           !.comment_likes = BagSelect(@, LAMBDA k : k.comment_id # comment_id),
           !.comment_authors = {a \in @ : a.comment_id # comment_id},
           !.recipe_comments = {c \in @ : c.id # comment_id}]
  IN IF ~CommentExists(seen, recipe_id, comment_id)
     THEN Raise(d, d, 404, "comment_not_found", <<>>)
     ELSE IF ~DeleteForeignKeysOk(session)
          THEN Raise(d, session, 500, "integrity_error", <<>>)
          ELSE Return(d, session, "comment_deleted")

\* main.remove_recipe_comment: 404 for an unknown recipe, then 403 unless the
\* caller has an author link to the comment id, then crud.delete_recipe_comment
remove_recipe_comment(d, seen, recipe_id, comment_id, current_user) ==
  IF ~\E x \in seen.recipes : x.id = recipe_id
  THEN Raise(d, d, 404, "recipe_not_found", <<>>)
  ELSE IF ~is_comment_owner(seen, comment_id, current_user.id)
       THEN Raise(d, d, 403, "not_comment_author", <<>>)
       ELSE delete_recipe_comment(d, seen, recipe_id, comment_id)

\* delete_ingredient without its SELECT for an association row
delete_ingredient_unchecked(d, seen, ingredient_id) ==
  LET session == [d EXCEPT
                    !.recipe_ingredients = {x \in @ : x.ingredient_id # ingredient_id},
                    !.ingredients = {i \in @ : i.id # ingredient_id}]
  IN IF ~\E i \in seen.ingredients : i.id = ingredient_id
     THEN Raise(d, d, 404, "not_found", <<>>)
     ELSE Return(d, session, "ingredient_deleted")

\* crud.delete_ingredient (no route calls it: None is reported as 404, an
\* exception as 500): refused while an association row names the ingredient;
\* association rows found at flush go with the ingredient
delete_ingredient(d, seen, ingredient_id) ==
  LET in_use == \E x \in seen.recipe_ingredients : x.ingredient_id = ingredient_id
      session == [d EXCEPT
                    !.recipe_ingredients = {x \in @ : x.ingredient_id # ingredient_id},
                    !.ingredients = {i \in @ : i.id # ingredient_id}]
  IN IF ~\E i \in seen.ingredients : i.id = ingredient_id
     THEN Raise(d, d, 404, "not_found", <<>>)
     ELSE IF in_use
          THEN Raise(d, d, 500, "ingredient_in_use", <<>>)
          ELSE IF ~DeleteForeignKeysOk(session)
               THEN Raise(d, session, 500, "integrity_error", <<>>)
               ELSE Return(d, session, "ingredient_deleted")

(***************************************************************************)
(* Presence (crud.get_online_device_count, crud.touch_online_device,       *)
(* crud.remove_online_device and their routes).  Time is in seconds.       *)
(***************************************************************************)

\* user_id IS NULL (ids start at 1)
NoUser == 0

\* main.ONLINE_DEVICE_WINDOW_SECONDS when the environment does not set it
ONLINE_DEVICE_WINDOW_SECONDS == 120

\* the decimal digits in order
DigitChars == <<"0","1","2","3","4","5","6","7","8","9">>

\* str(n) for n >= 0
RECURSIVE IntText(_)
IntText(n) ==
  IF n < 10 THEN <<DigitChars[n + 1]>>
  ELSE IntText(n \div 10) \o <<DigitChars[(n % 10) + 1]>>

\* the key a presence row is counted under, as the f-strings build it
PresenceKey(row) ==
  LET normalized_agent ==
        Lower(Strip(IF row.user_agent = None THEN <<>> ELSE row.user_agent))
  IN IF row.user_id # NoUser /\ normalized_agent # <<>>
     THEN <<"u","s","e","r",":">> \o IntText(row.user_id)
            \o <<":","a","g","e","n","t",":">> \o normalized_agent
     ELSE IF row.user_id # NoUser
          THEN <<"u","s","e","r",":">> \o IntText(row.user_id)
                 \o <<":","d","e","v","i","c","e",":">> \o row.device_id
          ELSE <<"a","n","o","n",":">> \o row.device_id

\* max(30, int(window_seconds or 300)): a window of 0 is falsy
safe_window_floor_only(window_seconds) ==
  IF window_seconds < 30 THEN 30 ELSE window_seconds

safe_window(window_seconds) ==
  LET configured == IF window_seconds = 0 THEN 300 ELSE window_seconds
  IN IF configured < 30 THEN 30 ELSE configured

\* the rows with last_seen_at >= utcnow() - safe_window
RowsInWindow(d, window_seconds, t) ==
  {row \in d.online_device_presence :
     row.last_seen_at >= t - safe_window(window_seconds)}

\* get_online_device_count that counts the rows, not their keys
get_online_device_count_rows(d, window_seconds, t) ==
  Cardinality(RowsInWindow(d, window_seconds, t))

\* crud.get_online_device_count at time t
get_online_device_count(d, window_seconds, t) ==
  Cardinality({PresenceKey(row) : row \in RowsInWindow(d, window_seconds, t)})

\* touch_online_device that overwrites user id and user-agent on every heartbeat
touch_online_device_overwriting(d, seen, device_id, user_id, user_agent, t) ==
  LET normalized_device_id == Strip(device_id)
      normalized_user_agent ==
        IF user_agent = None \/ Strip(user_agent) = <<>> THEN None
        ELSE Strip(user_agent)
      fresh == [device_id |-> normalized_device_id, user_id |-> user_id,
                user_agent |-> normalized_user_agent, last_seen_at |-> t]
      session == [d EXCEPT !.online_device_presence =
                    {row \in @ : row.device_id # normalized_device_id}
                      \cup {fresh}]
  IN IF normalized_device_id = <<>> THEN Return(d, d, "no_device")
     ELSE Return(d, session, "touched")

\* crud.touch_online_device at time t: nothing for a blank device id; a new row,
\* or the found row with last_seen_at set and user id and user-agent replaced
\* only by values the heartbeat carries
touch_online_device(d, seen, device_id, user_id, user_agent, t) ==
  LET normalized_device_id == Strip(device_id)
      found == {row \in seen.online_device_presence :
                  row.device_id = normalized_device_id}
      normalized_user_agent ==
        IF user_agent = None \/ Strip(user_agent) = <<>> THEN None
        ELSE Strip(user_agent)
      fresh == [device_id |-> normalized_device_id, user_id |-> user_id,
                user_agent |-> normalized_user_agent, last_seen_at |-> t]
      Touched(row) ==
        [row EXCEPT
           !.last_seen_at = t,
           !.user_id = IF user_id # NoUser THEN user_id ELSE @,
           !.user_agent =
             IF normalized_user_agent # None THEN normalized_user_agent ELSE @]
      session ==
        IF found = {}
        THEN [d EXCEPT !.online_device_presence = @ \cup {fresh}]
        ELSE [d EXCEPT !.online_device_presence =
                {IF row.device_id = normalized_device_id THEN Touched(row)
                 ELSE row : row \in @}]
  IN IF normalized_device_id = <<>> THEN Return(d, d, "no_device")
     ELSE IF \E a \in session.online_device_presence :
               \E b \in session.online_device_presence :
                 a # b /\ a.device_id = b.device_id
          THEN Raise(d, session, 500, "integrity_error", <<>>)
          ELSE Return(d, session, "touched")

\* remove_online_device that deletes every row
remove_online_device_all(d, seen, device_id) ==
  IF Strip(device_id) = <<>> THEN Return(d, d, "no_device")
  ELSE Return(d, [d EXCEPT !.online_device_presence = {}], "removed")

\* crud.remove_online_device: nothing for a blank device id or a device with no
\* row; else the row is deleted
remove_online_device(d, seen, device_id) ==
  LET normalized_device_id == Strip(device_id)
      found == {row \in seen.online_device_presence :
                  row.device_id = normalized_device_id}
      session == [d EXCEPT !.online_device_presence =
                    {row \in @ : row.device_id # normalized_device_id}]
  IN IF normalized_device_id = <<>> THEN Return(d, d, "no_device")
     ELSE IF found = {} THEN Return(d, d, "no_row")
          ELSE Return(d, session, "removed")

(***************************************************************************)
(* Search (crud.search_recipes under main.search)                          *)
(***************************************************************************)

RECURSIVE LikeMatch(_, _)
\* text ILIKE pattern: % stands for any run of characters, _ for any one
\* character, every other character for itself in either letter case
LikeMatch(pattern, text) ==
  IF pattern = <<>> THEN text = <<>>
  ELSE IF Head(pattern) = "%"
       THEN \/ LikeMatch(Tail(pattern), text)
            \/ text # <<>> /\ LikeMatch(pattern, Tail(text))
       ELSE /\ text # <<>>
            /\ \/ Head(pattern) = "_"
               \/ LowerChar(Head(pattern)) = LowerChar(Head(text))
            /\ LikeMatch(Tail(pattern), Tail(text))

\* column.ilike(f"%{t}%"); NULL matches nothing
ILikeContains(value, t) ==
  value # None /\ LikeMatch(<<"%">> \o t \o <<"%">>, value)

\* Recipe.ingredients.any(Ingredient.name.ilike(...))
AnyIngredientLike(seen, recipe_id, t) ==
  \E x \in seen.recipe_ingredients : \E i \in seen.ingredients :
    x.recipe_id = recipe_id /\ i.id = x.ingredient_id /\ ILikeContains(i.name, t)

\* Recipe.tags.any(Tag.name.ilike(...))
AnyTagLike(seen, recipe_id, t) ==
  \E x \in seen.recipetags : \E tag \in seen.tags :
    x.recipe_id = recipe_id /\ tag.id = x.tag_id /\ ILikeContains(tag.name, t)

\* the clause of one term in a scope
SearchClause(seen, x, t, scope) ==
  IF scope = <<"n","a","m","e">>
  THEN ILikeContains(x.title, t) \/ ILikeContains(x.description, t)
  ELSE IF scope = <<"i","n","g","r","e","d","i","e","n","t","s">>
  THEN AnyIngredientLike(seen, x.id, t)
  ELSE IF scope = <<"t","a","g","s">> THEN AnyTagLike(seen, x.id, t)
  ELSE \/ ILikeContains(x.title, t) \/ ILikeContains(x.description, t)
       \/ AnyIngredientLike(seen, x.id, t) \/ AnyTagLike(seen, x.id, t)

\* crud.search_recipes: the ids of the recipes returned; all of them for a
\* query without terms, else those that satisfy the clause of every term
search_recipes(seen, query, scope) ==
  Only({ {x.id : x \in {x \in seen.recipes :
                          \A k \in 1..Len(terms) :
                            SearchClause(seen, x, terms[k], scope)}}
           : terms \in {_split_terms(query)} })

\* main.search: the scope is stripped and lower-cased; 400 for a scope that is
\* none of all, name, ingredients, tags
search(seen, query, scope) ==
  IF Lower(Strip(scope)) \notin
       { <<"a","l","l">>, <<"n","a","m","e">>,
         <<"i","n","g","r","e","d","i","e","n","t","s">>, <<"t","a","g","s">> }
  THEN [status |-> 400, ids |-> {}]
  ELSE [status |-> 200, ids |-> search_recipes(seen, query, Lower(Strip(scope)))]

(***************************************************************************)
(* Requests: the inputs the model draws                                    *)
(***************************************************************************)

Egg == <<"e","g","g">>

Oat == <<"o","a","t">>

Veg == <<"v","e","g">>

Hot == <<"h","o","t">>

\* usernames: two spellings of one name, another name, one too short
Usernames ==
  { <<"a","n","n">>, <<" ","A","n","n">>, <<"b","o","b">>, <<"a","l">> }

\* passwords: six characters, and five
Passwords == { <<"s","e","c","r","e","t">>, <<"s","h","o","r","t">> }

\* names for the ingredient catalog: two spellings of one name, another, a blank
IngredientNames == { Egg, <<" ","E","g","g">>, Oat, <<" ">> }

\* names for the tag catalog
TagNames == { Veg, <<"V","e","g"," ">>, Hot }

\* ids a request may name: those the sequences can have given out, and one more
UserIds == 1..(MaxUsers + 1)

IngredientIds == 1..(MaxIngredients + 1)

RecipeIds == 1..(MaxRecipes + 1)

CommentIds == 1..(MaxComments + 1)

\* an IngredientCreate of a recipe request
Item(name, quantity) == [name |-> name, quantity |-> quantity]

\* a TagCreate of a recipe request
TagItem(name) == [name |-> name]

\* a RecipeCreate
Recipe(title, ingredients, tags) ==
  [title |-> title, description |-> None, ingredients |-> ingredients,
   tags |-> tags]

\* a RecipeCreate with a title in characters and a description
Described(title, description, ingredients, tags) ==
  [title |-> title, description |-> description, ingredients |-> ingredients,
   tags |-> tags]

\* the recipe requests: plain, with one and with several names per field, with
\* quantities in several spellings, and each way of failing validation
RecipeInputs ==
  { Recipe("soup", <<>>, <<>>),
    Recipe("soup", <<Item(Egg, None)>>, <<TagItem(<<"V","e","g">>)>>),
    Recipe("stew", <<Item(<<"E","g","g">>, <<"2","d","l">>)>>,
           <<TagItem(<<"v","e","g",";","h","o","t">>)>>),
    Recipe("stew", <<Item(<<"o","a","t",","," ","e","g","g">>,
                          <<"1",",","5"," ","L">>)>>, <<>>),
    Recipe("stew", <<Item(Oat, None), Item(Egg, <<"2","d","l">>)>>,
           <<TagItem(Hot)>>),
    \* a quantity that is no quantity
    Recipe("stew", <<Item(Egg, <<"2"," ","c","u","p","s">>)>>, <<TagItem(Hot)>>),
    Recipe("stew", <<Item(<<"o","a","t",",","e","g","g">>,
                          <<"2"," ","c","u","p","s">>)>>, <<>>),
    \* a name twice
    Recipe("stew", <<Item(Egg, None), Item(<<" ","E","G","G">>, None)>>,
           <<TagItem(Hot)>>),
    \* a tag twice
    Recipe("stew", <<Item(Egg, None)>>, <<TagItem(Hot), TagItem(<<"H","o","t">>)>>) }

\* a recipe request with nothing to resolve
PlainRecipe == Recipe("soup", <<>>, <<>>)

\* comment texts: one with content, one blank
Contents == { <<"h","i">>, <<" ">> }

(***************************************************************************)
(* State, and requests that run alone                                      *)
(***************************************************************************)

\* every table within the model's bounds
WithinBounds(d) ==
  /\ d.user_seq <= MaxUsers + 1 /\ Cardinality(d.users) <= MaxUsers
  /\ d.ingredient_seq <= MaxIngredients + 1
  /\ Cardinality(d.ingredients) <= MaxIngredients
  /\ d.tag_seq <= MaxTags + 1 /\ Cardinality(d.tags) <= MaxTags
  /\ d.recipe_seq <= MaxRecipes + 1 /\ Cardinality(d.recipes) <= MaxRecipes
  /\ d.comment_seq <= MaxComments + 1
  /\ Cardinality(d.recipe_comments) <= MaxComments

\* the answer to the request served last
Answer(op, r) ==
  [op |-> op, status |-> r.status, detail |-> r.detail, names |-> r.names]

\* the store after startup on an empty database; no request served or in flight
Init ==
  /\ db = ensure_at_least_one_admin(EmptyDb, EmptyDb)
  /\ last = [op |-> "startup", status |-> 0, detail |-> "", names |-> <<>>]
  /\ inflight = EmptyBag
  /\ now = 0

\* a request that runs alone: its SELECTs see the store it writes to
Serve(op, response) ==
  \E r \in {response} :
    /\ WithinBounds(r.db)
    /\ db' = r.db
    /\ last' = Answer(op, r)
    /\ UNCHANGED <<inflight, now>>

\* get_current_user: the caller's token resolves to a row of users
CurrentUsers == db.users

Register ==
  \E username \in Usernames, password \in Passwords :
    Serve("register", register(db, db, username, password))

CreateIngredient ==
  \E u \in CurrentUsers, name \in IngredientNames :
    Serve("create_ingredient", create_ingredient(db, db, name))

UpdateIngredient ==
  \E id \in IngredientIds, name \in IngredientNames :
    Serve("update_ingredient", update_ingredient(db, db, id, name))

CreateTag ==
  \E u \in CurrentUsers, name \in TagNames :
    Serve("create_tag", create_tag(db, name))

CreateRecipe ==
  \E u \in CurrentUsers, recipe \in RecipeInputs :
    Serve("create_recipe", create_recipe(db, db, recipe, u.id))

UpdateRecipe ==
  \E u \in CurrentUsers, id \in RecipeIds, recipe \in RecipeInputs :
    Serve("update_recipe", main_update_recipe(db, db, id, recipe, u))

\* registrations, catalog entries and recipe writes, one request at a time
Next ==
  \/ Register
  \/ CreateIngredient
  \/ CreateRecipe
  \/ UpdateRecipe

Spec == Init /\ [][Next]_vars

(***************************************************************************)
(* Favorites, comments and likes, one request at a time                    *)
(***************************************************************************)

CreatePlainRecipe ==
  \E u \in CurrentUsers :
    Serve("create_recipe", create_recipe(db, db, PlainRecipe, u.id))

AddFavorite ==
  \E u \in CurrentUsers, id \in RecipeIds :
    Serve("add_recipe_favorite", add_recipe_favorite(db, db, id, u.id))

RemoveFavorite ==
  \E u \in CurrentUsers, id \in RecipeIds :
    Serve("remove_recipe_favorite", remove_recipe_favorite(db, db, id, u.id))

AddComment ==
  \E u \in CurrentUsers, id \in RecipeIds, content \in Contents :
    Serve("create_recipe_comment", create_recipe_comment(db, db, id, content, u.id))

AddLike ==
  \E u \in CurrentUsers, id \in RecipeIds, c \in CommentIds :
    Serve("add_comment_like", add_comment_like(db, db, id, c, u.id))

RemoveLike ==
  \E u \in CurrentUsers, id \in RecipeIds, c \in CommentIds :
    Serve("remove_comment_like", remove_comment_like(db, db, id, c, u.id))

NextSocial ==
  \/ Register
  \/ CreatePlainRecipe
  \/ AddFavorite
  \/ RemoveFavorite
  \/ AddComment
  \/ AddLike
  \/ RemoveLike

SpecSocial == Init /\ [][NextSocial]_vars

(***************************************************************************)
(* Requests that overlap.  A request in flight has run its SELECTs (on the *)
(* store kept in seen) and not yet its INSERT/UPDATE and commit; these are *)
(* applied, and the store's constraints checked, when it finishes.         *)
(***************************************************************************)

\* the tables each handler SELECTs from
Reads(op) ==
  CASE op = "register" -> {"users"}
    [] op = "ensure_at_least_one_admin" -> {"users"}
    [] op = "create_ingredient" -> {"ingredients"}
    [] op = "update_ingredient" -> {"ingredients"}
    [] op = "create_recipe" -> {"ingredients", "tags"}
    [] op = "update_recipe" -> {"recipes", "recipe_authors", "ingredients", "tags"}
    [] op = "add_recipe_favorite" -> {"recipes", "recipe_favorites"}
    [] op = "add_comment_like" -> {"recipe_comments", "comment_likes"}
    [] op = "delete_recipe" -> {"recipes", "recipe_comments"}
    [] op = "create_recipe_comment" -> {"recipes"}
    [] op = "remove_recipe_comment" ->
         {"recipes", "recipe_comments", "comment_authors"}
    [] op = "delete_ingredient" -> {"ingredients", "recipe_ingredients"}

\* what a request keeps of the store d: the tables it has read
Snapshot(tables, d) ==
  [f \in DOMAIN EmptyDb |-> IF f \in tables THEN d[f] ELSE EmptyDb[f]]

\* a request starts: its SELECTs are answered from the store as it is now
Begin(req) ==
  /\ BagCardinality(inflight) < MaxInflight
  /\ inflight' = inflight (+) SetToBag({[req EXCEPT !.seen = Snapshot(Reads(req.op), db)]})
  /\ UNCHANGED <<db, last, now>>

\* what a request in flight does to the store d when it finishes
Handle(d, req) ==
  CASE req.op = "register" ->
         register(d, req.seen, req.username, req.password)
    [] req.op = "ensure_at_least_one_admin" ->
         Response(ensure_at_least_one_admin(d, req.seen), 0, "startup", <<>>)
    [] req.op = "create_ingredient" ->
         create_ingredient(d, req.seen, req.name)
    [] req.op = "update_ingredient" ->
         update_ingredient(d, req.seen, req.id, req.name)
    [] req.op = "create_recipe" ->
         create_recipe(d, req.seen, req.recipe, req.user.id)
    [] req.op = "update_recipe" ->
         main_update_recipe(d, req.seen, req.id, req.recipe, req.user)
    [] req.op = "add_recipe_favorite" ->
         add_recipe_favorite(d, req.seen, req.id, req.user.id)
    [] req.op = "add_comment_like" ->
         add_comment_like(d, req.seen, req.id, req.comment_id, req.user.id)
    [] req.op = "delete_recipe" ->
         main_delete_recipe(d, req.seen, req.id, req.user)
    [] req.op = "create_recipe_comment" ->
         create_recipe_comment(d, req.seen, req.id, req.content, req.user.id)
    [] req.op = "remove_recipe_comment" ->
         remove_recipe_comment(d, req.seen, req.id, req.comment_id, req.user)
    [] req.op = "delete_ingredient" ->
         delete_ingredient(d, req.seen, req.id)

\* a request in flight finishes
Finish(op) ==
  \E req \in BagToSet(inflight) :
    /\ req.op = op
    /\ \E r \in {Handle(db, req)} :
         /\ WithinBounds(r.db)
         /\ db' = r.db
         /\ last' = Answer(op, r)
         /\ inflight' = inflight (-) SetToBag({req})
         /\ UNCHANGED now

BeginRegister ==
  \E username \in Usernames, password \in Passwords :
    Begin([op |-> "register", username |-> username, password |-> password,
           seen |-> db])

FinishRegister == Finish("register")

\* a worker process starts and runs main.ensure_at_least_one_admin
BeginEnsureAdmin == Begin([op |-> "ensure_at_least_one_admin", seen |-> db])

FinishEnsureAdmin == Finish("ensure_at_least_one_admin")

NextRegisterRace ==
  \/ BeginRegister
  \/ FinishRegister
  \/ BeginEnsureAdmin
  \/ FinishEnsureAdmin

SpecRegisterRace == Init /\ [][NextRegisterRace]_vars

\* the ingredient names of the races: two spellings of one name to create, one
\* of them and another name to rename to
RaceIngredientNames == { Egg, <<" ","E","g","g">> }

RaceRenames == { <<" ","E","g","g">>, Oat }

\* the tag names of the races: two spellings of one name
RaceTagNames == { Veg, <<"V","e","g"," ">> }

\* the recipe requests of the races: one tag in two spellings and another tag,
\* one ingredient
RaceRecipeInputs ==
  { Recipe("soup", <<>>, <<TagItem(<<"V","e","g">>)>>),
    Recipe("stew", <<Item(Egg, None)>>, <<TagItem(Veg), TagItem(Hot)>>) }

BeginCreateIngredient ==
  \E u \in CurrentUsers, name \in RaceIngredientNames :
    Begin([op |-> "create_ingredient", name |-> name, seen |-> db])

FinishCreateIngredient == Finish("create_ingredient")

BeginUpdateIngredient ==
  \E id \in 1..MaxIngredients, name \in RaceRenames :
    Begin([op |-> "update_ingredient", id |-> id, name |-> name, seen |-> db])

FinishUpdateIngredient == Finish("update_ingredient")

BeginCreateRecipe ==
  \E u \in CurrentUsers, recipe \in RaceRecipeInputs :
    Begin([op |-> "create_recipe", user |-> u, recipe |-> recipe, seen |-> db])

FinishCreateRecipe == Finish("create_recipe")

BeginUpdateRecipe ==
  \E u \in CurrentUsers, id \in 1..MaxRecipes, recipe \in RaceRecipeInputs :
    Begin([op |-> "update_recipe", user |-> u, id |-> id, recipe |-> recipe,
           seen |-> db])

FinishUpdateRecipe == Finish("update_recipe")

\* the first user registers before the catalog is written to
RegisterFirst ==
  /\ db.users = {}
  /\ Register

\* create_tag between the steps of the other requests: its one statement
CreateRaceTag ==
  \E u \in CurrentUsers, name \in RaceTagNames :
    Serve("create_tag", create_tag(db, name))

NextCatalogRace ==
  \/ RegisterFirst
  \/ CreateRaceTag
  \/ BeginCreateIngredient
  \/ FinishCreateIngredient
  \/ BeginUpdateIngredient
  \/ FinishUpdateIngredient
  \/ BeginCreateRecipe
  \/ FinishCreateRecipe
  \/ BeginUpdateRecipe
  \/ FinishUpdateRecipe

SpecCatalogRace == Init /\ [][NextCatalogRace]_vars

\* the users of the races register one request at a time
RegisterRaceUser ==
  \E username \in { <<"a","n","n">>, <<"b","o","b">> } :
    Serve("register", register(db, db, username, <<"s","e","c","r","e","t">>))

BeginAddFavorite ==
  \E u \in CurrentUsers, id \in 1..MaxRecipes :
    Begin([op |-> "add_recipe_favorite", user |-> u, id |-> id, seen |-> db])

FinishAddFavorite == Finish("add_recipe_favorite")

BeginAddLike ==
  \E u \in CurrentUsers, id \in 1..MaxRecipes, c \in 1..MaxComments :
    Begin([op |-> "add_comment_like", user |-> u, id |-> id, comment_id |-> c,
           seen |-> db])

FinishAddLike == Finish("add_comment_like")

NextSocialRace ==
  \/ RegisterRaceUser
  \/ CreatePlainRecipe
  \/ AddComment
  \/ BeginAddFavorite
  \/ FinishAddFavorite
  \/ BeginAddLike
  \/ FinishAddLike

SpecSocialRace == Init /\ [][NextSocialRace]_vars

\* the recipe of the deletion races: one ingredient with a quantity, one tag
RaceStew == Recipe("stew", <<Item(Egg, <<"2","d","l">>)>>, <<TagItem(Veg)>>)

CreateRaceIngredient ==
  \E u \in CurrentUsers :
    Serve("create_ingredient", create_ingredient(db, db, Egg))

CreateRaceStew ==
  \E u \in CurrentUsers :
    Serve("create_recipe", create_recipe(db, db, RaceStew, u.id))

BeginDeleteRecipe ==
  \E u \in CurrentUsers, id \in 1..MaxRecipes :
    Begin([op |-> "delete_recipe", user |-> u, id |-> id, seen |-> db])

FinishDeleteRecipe == Finish("delete_recipe")

BeginAddComment ==
  \E u \in CurrentUsers, id \in 1..MaxRecipes :
    Begin([op |-> "create_recipe_comment", user |-> u, id |-> id,
           content |-> <<"h","i">>, seen |-> db])

FinishAddComment == Finish("create_recipe_comment")

BeginRemoveComment ==
  \E u \in CurrentUsers, id \in 1..MaxRecipes, c \in 1..MaxComments :
    Begin([op |-> "remove_recipe_comment", user |-> u, id |-> id,
           comment_id |-> c, seen |-> db])

FinishRemoveComment == Finish("remove_recipe_comment")

\* the deletion races have one user, the admin
RegisterRaceAdmin ==
  /\ db.users = {}
  /\ RegisterRaceUser

NextDeleteRace ==
  \/ RegisterRaceAdmin
  \/ CreateRaceIngredient
  \/ CreateRaceStew
  \/ BeginDeleteRecipe
  \/ FinishDeleteRecipe
  \/ BeginAddFavorite
  \/ FinishAddFavorite
  \/ BeginAddComment
  \/ FinishAddComment
  \/ BeginAddLike
  \/ FinishAddLike
  \/ BeginRemoveComment
  \/ FinishRemoveComment

SpecDeleteRace == Init /\ [][NextDeleteRace]_vars

\* the catalog names and recipes of the ingredient deletions
DeletionIngredientNames == { Egg, Oat }

DeletionRecipeInputs == { PlainRecipe, RaceStew }

CreateDeletionIngredient ==
  \E u \in CurrentUsers, name \in DeletionIngredientNames :
    Serve("create_ingredient", create_ingredient(db, db, name))

CreateDeletionRecipe ==
  \E u \in CurrentUsers, recipe \in DeletionRecipeInputs :
    Serve("create_recipe", create_recipe(db, db, recipe, u.id))

UpdateDeletionRecipe ==
  \E u \in CurrentUsers, id \in 1..MaxRecipes, recipe \in DeletionRecipeInputs :
    Serve("update_recipe", main_update_recipe(db, db, id, recipe, u))

DeleteRecipe ==
  \E u \in CurrentUsers, id \in RecipeIds :
    Serve("delete_recipe", main_delete_recipe(db, db, id, u))

BeginDeleteIngredient ==
  \E id \in 1..MaxIngredients :
    Begin([op |-> "delete_ingredient", id |-> id, seen |-> db])

FinishDeleteIngredient == Finish("delete_ingredient")

NextIngredientDelete ==
  \/ RegisterRaceAdmin
  \/ CreateDeletionIngredient
  \/ CreateDeletionRecipe
  \/ UpdateDeletionRecipe
  \/ DeleteRecipe
  \/ BeginDeleteIngredient
  \/ FinishDeleteIngredient

SpecIngredientDelete == Init /\ [][NextIngredientDelete]_vars

\* recipes created, updated and deleted by two users, one request at a time
NextAuthorship ==
  \/ RegisterRaceUser
  \/ CreateDeletionIngredient
  \/ CreateDeletionRecipe
  \/ UpdateDeletionRecipe
  \/ DeleteRecipe

SpecAuthorship == Init /\ [][NextAuthorship]_vars

\* device ids of heartbeats: two devices, one of them in two spellings, a blank
DeviceIds ==
  { <<"d","1">>, <<" ","d","1">>, <<"d","2">>, <<" ">> }

\* User-Agent headers: absent, blank, one browser in two letter cases
UserAgents == { None, <<" ">>, <<"F","x">>, <<"f","x">> }

\* the last instant of the model, and the step of the clock: one second more
\* than the floor of the window
MaxTime == 31

TickSeconds == { 31 }

\* configured windows: negative, zero, below the floor, the floor, above it,
\* the default
Windows == { 0 - 5, 0, 29, 30, 31, ONLINE_DEVICE_WINDOW_SECONDS }

Tick ==
  \E seconds \in TickSeconds :
    /\ now + seconds <= MaxTime
    /\ now' = now + seconds
    /\ UNCHANGED <<db, last, inflight>>

\* main.presence_heartbeat: the user id of a valid bearer token, if any
Heartbeat ==
  \E device_id \in DeviceIds, user_agent \in UserAgents,
     user_id \in {NoUser} \cup {u.id : u \in db.users} :
    Serve("presence_heartbeat",
          touch_online_device(db, db, device_id, user_id, user_agent, now))

\* main.presence_offline
Offline ==
  \E device_id \in DeviceIds :
    Serve("presence_offline", remove_online_device(db, db, device_id))

NextPresence ==
  \/ RegisterRaceUser
  \/ Tick
  \/ Heartbeat
  \/ Offline

SpecPresence == Init /\ [][NextPresence]_vars

(***************************************************************************)
(* Registration and explicit catalog creation, one request at a time       *)
(***************************************************************************)

NextCatalog ==
  \/ Register
  \/ CreateIngredient
  \/ CreateTag

SpecCatalog == Init /\ [][NextCatalog]_vars

(***************************************************************************)
(* Comments written and removed, one request at a time                     *)
(***************************************************************************)

RemoveComment ==
  \E u \in CurrentUsers, id \in RecipeIds, c \in CommentIds :
    Serve("remove_recipe_comment", remove_recipe_comment(db, db, id, c, u))

NextComments ==
  \/ Register
  \/ CreatePlainRecipe
  \/ AddComment
  \/ RemoveComment

SpecComments == Init /\ [][NextComments]_vars

\* the same with two users and with likes on the comment
NextCommentRemoval ==
  \/ RegisterRaceUser
  \/ CreatePlainRecipe
  \/ AddComment
  \/ AddLike
  \/ RemoveComment

SpecCommentRemoval == Init /\ [][NextCommentRemoval]_vars

(***************************************************************************)
(* Quantity parsing alone: _normalize_quantity applied to one raw string   *)
(***************************************************************************)

\* the pieces of the raw quantities: leading text, integer part, decimal part,
\* gap, unit and trailing text, well-formed and not
QuantityLeads == { <<>>, <<" ">> }

QuantityIntegers == { <<>>, <<"1">>, <<"1","2">>, <<"1"," ","2">> }

QuantityDecimals ==
  { <<>>, <<".","5">>, <<",","5">>, <<" ",","," ","5">>, <<".">>,
    <<".",",","5">>, <<",","x">> }

QuantityGaps == { <<>>, <<" ">>, <<"\n"," ">> }

QuantityUnits ==
  VALID_QUANTITY_UNITS
    \cup { <<"D","L">>, <<"K","g">>, <<"S","T">>, <<"d"," ","l">>, <<>>,
           <<"c","u","p","s">>, <<"l","b">>, <<"m">>, <<"g","g">> }

QuantityTrails == { <<>>, <<" ">>, <<"x">> }

\* IngredientCreate.quantity: absent, or a text put together from the pieces
RawQuantities ==
  {None} \cup
  { a \o b \o c \o e \o f \o g :
      a \in QuantityLeads, b \in QuantityIntegers, c \in QuantityDecimals,
      e \in QuantityGaps, f \in QuantityUnits, g \in QuantityTrails }

\* a raw quantity arrives
InitQuantity ==
  /\ db = EmptyDb
  /\ inflight = EmptyBag
  /\ now = 0
  /\ \E raw \in RawQuantities : last = [op |-> "quantity", raw |-> raw]

\* _normalize_quantity returns or raises
NormalizeQuantity ==
  /\ last.op = "quantity"
  /\ \E r \in {_normalize_quantity(last.raw)} :
       last' = [op |-> "_normalize_quantity", raw |-> last.raw,
                ok |-> r.ok, value |-> r.value]
  /\ UNCHANGED <<db, inflight, now>>

NextQuantity == NormalizeQuantity

SpecQuantity == InitQuantity /\ [][NextQuantity]_vars

(***************************************************************************)
(* Search alone: main.search on a store of two recipes                     *)
(***************************************************************************)

\* the recipes of the searched stores: titles and descriptions in characters,
\* words shared between a title, a description, an ingredient and a tag
SearchRecipeInputs ==
  { Described(<<"S","o","u","p">>, None, <<Item(Egg, None)>>, <<TagItem(Veg)>>),
    Described(<<"S","t","e","w">>, <<"h","o","t"," ","s","o","u","p">>,
              <<Item(Oat, None)>>, <<>>),
    Described(<<"E","g","g">>, None, <<>>, <<TagItem(Hot)>>),
    Described(<<"O","a","t","s">>, <<>>, <<Item(Egg, None), Item(Oat, None)>>,
              <<TagItem(Veg), TagItem(Hot)>>) }

\* the store after a registration and the creation of two ingredients
SearchCatalog ==
  Only({ create_ingredient(one.db, one.db, Oat).db
           : one \in { create_ingredient(user.db, user.db, Egg)
                         : user \in { register(EmptyDb, EmptyDb, <<"a","n","n">>,
                                               <<"s","e","c","r","e","t">>) } } })

\* the store after two more requests, each a create_recipe
SearchStores ==
  { create_recipe(first.db, first.db, b, 1).db
      : first \in { create_recipe(SearchCatalog, SearchCatalog, a, 1)
                      : a \in SearchRecipeInputs },
        b \in SearchRecipeInputs }

\* queries: without terms, one term, several terms, a term with a blank inside,
\* terms with the characters _ and %
SearchQueries ==
  { <<>>, <<" ",",",";"," ">>, <<"s","o">>, <<"S","O","U","P">>,
    <<"e","g","g">>, <<"s","o",","," ","e","g","g">>,
    <<"e","g","g",";","v","e","g">>, <<"t"," ","s">>, <<" ","h","o","t","\n">>,
    <<"o","u",":","x">>, <<"s","_","u">>, <<"%">> }

\* scopes: the four, one of them as the client may spell it, and another word
SearchScopes ==
  { <<"a","l","l">>, <<"n","a","m","e">>,
    <<"i","n","g","r","e","d","i","e","n","t","s">>, <<"t","a","g","s">>,
    <<" ","N","a","m","e">>, <<"t","i","t","l","e">> }

\* a store of two recipes, nothing searched yet
InitSearch ==
  /\ db \in SearchStores
  /\ last = [op |-> "startup", status |-> 0, detail |-> "", names |-> <<>>]
  /\ inflight = EmptyBag
  /\ now = 0

\* GET /recipes/search
Search ==
  /\ \E query \in SearchQueries, scope \in SearchScopes :
       \E r \in {search(db, query, scope)} :
         last' = [op |-> "search", query |-> query, scope |-> scope,
                  status |-> r.status, ids |-> r.ids]
  /\ UNCHANGED <<db, inflight, now>>

NextSearch == Search

SpecSearch == InitSearch /\ [][NextSearch]_vars

(***************************************************************************)
(* The names of one recipe write: create_recipe on a catalog               *)
(***************************************************************************)

\* ingredient entries: none; names once; a name three times; two names twice
\* across entries, repeated in the other order; a repeated name with a
\* malformed quantity; empty pieces; a name twice in two letter cases
NameIngredientInputs ==
  { <<>>,
    <<Item(<<"e","g","g",","," ","O","a","t">>, None)>>,
    <<Item(<<"e","g","g",";"," ","E","G","G"," ",":","e","g","g">>, None)>>,
    <<Item(<<"e","g","g",",","o","a","t">>, None),
      Item(<<" ","O","a","t","\n","e","g","g">>, <<"2","d","l">>)>>,
    <<Item(<<"e","g","g",",","e","g","g">>, <<"2"," ","c","u","p","s">>)>>,
    <<Item(<<"o","a","t",","," ",",",";">>, <<"1",",","5"," ","L">>)>>,
    <<Item(Oat, None), Item(Egg, None), Item(<<"O","A","T">>, None)>> }

\* tag entries: none; one; two names twice across entries, repeated in the other
\* order; a name twice in one entry; two names once
NameTagInputs ==
  { <<>>,
    <<TagItem(Veg)>>,
    <<TagItem(<<"H","o","t",","," ","v","e","g">>),
      TagItem(<<"V","E","G",";","h","o","t">>)>>,
    <<TagItem(<<"h","o","t",":","h","o","t">>)>>,
    <<TagItem(<<"v","e","g","\n","\n","h","o","t"," ">>)>> }

\* the catalogs of the write: egg and oat, and egg alone
NameStores ==
  { SearchCatalog,
    Only({ create_ingredient(user.db, user.db, Egg).db
             : user \in { register(EmptyDb, EmptyDb, <<"a","n","n">>,
                                   <<"s","e","c","r","e","t">>) } }) }

\* a request with its ingredient and tag entries arrives
InitNames ==
  /\ db \in NameStores
  /\ \E ingredients \in NameIngredientInputs, tags \in NameTagInputs :
       last = [op |-> "request", recipe |-> Recipe("stew", ingredients, tags)]
  /\ inflight = EmptyBag
  /\ now = 0

\* POST /recipes/: the answer, with what the two extractions return on the way
WriteNames ==
  /\ last.op = "request"
  /\ \E r \in {create_recipe(db, db, last.recipe, 1)} :
       /\ db' = r.db
       /\ last' = [op |-> "create_recipe", recipe |-> last.recipe, before |-> db,
                   status |-> r.status, detail |-> r.detail, names |-> r.names,
                   entries |-> _extract_ingredient_entries(last.recipe.ingredients),
                   tag_names |-> _extract_unique_names(last.recipe.tags)]
  /\ UNCHANGED <<inflight, now>>

NextNames == WriteNames

SpecNames == InitNames /\ [][NextNames]_vars

(***************************************************************************)
(* Properties of recipe writes and registration, one request at a time     *)
(***************************************************************************)

\* the answers main gives to a ValueError of a recipe write
ValidationDetails ==
  {"bad_quantity", "duplicate_ingredients", "unknown_ingredients", "duplicate_tags"}

\* the requests a state offers: every caller with every recipe input
CreateRequests == {[user |-> u, recipe |-> x] : u \in db.users, x \in RecipeInputs}

UpdateRequests ==
  {[user |-> u, id |-> i, recipe |-> x]
     : u \in db.users, i \in RecipeIds, x \in RecipeInputs}

\* the answer to each request in the current state
Created(q) == create_recipe(db, db, q.recipe, q.user.id)

Updated(q) == main_update_recipe(db, db, q.id, q.recipe, q.user)

\* the normalized ingredient names of a request with no catalog row
MissingNames(recipe) ==
  {n \in Range(FlattenNames(recipe.ingredients)) : IngredientsNamed(db, n) = {}}

\* a list in strictly increasing code-point order
StrictlySorted(names) ==
  \A i \in 1..Len(names) : \A j \in 1..Len(names) :
    i < j => StrLess(names[i], names[j])

\* an update that main.update_recipe lets through to crud.update_recipe
Permitted(q) ==
  /\ \E x \in db.recipes : x.id = q.id
  /\ q.user.is_admin \/ is_recipe_owner(db, q.id, q.user.id)

\* C1: a create_recipe or update_recipe that fails validation (malformed
\* quantity, duplicate ingredient names, unknown ingredient, duplicate tag names)
\* leaves the whole store as it was: no recipe row, scalar field, association,
\* quantity or tag is added or changed.
C1_FailedWriteChangesNothing ==
  [][ (/\ last'.op \in {"create_recipe", "update_recipe"}
       /\ last'.detail \in ValidationDetails)
      => (last'.status = 400 /\ db' = db) ]_vars

\* C1 witness: an update with a new title and a repeated tag was refused while
\* the recipe holds its old title.
C1_Witness ==
  /\ last.op = "update_recipe" /\ last.detail = "duplicate_tags"
  /\ \E x \in db.recipes : x.title = "soup"

\* C2 as claimed: every recipe write that names a missing ingredient is answered
\* with the sorted list of the missing names.
C2_AsClaimed ==
  /\ \A q \in CreateRequests : \A r \in {Created(q)} :
       MissingNames(q.recipe) # {} =>
         /\ r.status = 400 /\ r.detail = "unknown_ingredients"
         /\ Range(r.names) = MissingNames(q.recipe)
         /\ StrictlySorted(r.names)
         /\ r.db.ingredients = db.ingredients
  /\ \A q \in UpdateRequests : \A r \in {Updated(q)} :
       (Permitted(q) /\ MissingNames(q.recipe) # {}) =>
         /\ r.status = 400 /\ r.detail = "unknown_ingredients"
         /\ Range(r.names) = MissingNames(q.recipe)
         /\ StrictlySorted(r.names)
         /\ r.db.ingredients = db.ingredients

\* a request whose ingredient entries pass _extract_ingredient_entries: every
\* quantity well-formed, no name twice
EntriesValid(recipe) == _extract_ingredient_entries(recipe.ingredients).ok

\* C2 (amended): a recipe write whose quantities are well-formed and whose
\* ingredient names do not repeat, and that names at least one ingredient with no
\* catalog row, fails with 400 and lists every missing name once, in
\* lexicographic order; and no recipe write, failed or not, changes the
\* ingredient catalog.
C2_MissingIngredientsListed ==
  /\ \A q \in CreateRequests : \A r \in {Created(q)} :
          /\ r.db.ingredients = db.ingredients
          /\ (EntriesValid(q.recipe) /\ MissingNames(q.recipe) # {}) =>
               /\ r.status = 400 /\ r.detail = "unknown_ingredients"
               /\ Range(r.names) = MissingNames(q.recipe)
               /\ StrictlySorted(r.names)
               /\ Len(r.names) = Cardinality(MissingNames(q.recipe))
  /\ \A q \in UpdateRequests : \A r \in {Updated(q)} :
          /\ r.db.ingredients = db.ingredients
          /\ (Permitted(q) /\ EntriesValid(q.recipe) /\ MissingNames(q.recipe) # {}) =>
               /\ r.status = 400 /\ r.detail = "unknown_ingredients"
               /\ Range(r.names) = MissingNames(q.recipe)
               /\ StrictlySorted(r.names)
               /\ Len(r.names) = Cardinality(MissingNames(q.recipe))

\* C2 witness: a write was refused for two missing names, listed egg before oat
\* (the request names oat first).
C2_Witness ==
  /\ last.op \in {"create_recipe", "update_recipe"}
  /\ last.detail = "unknown_ingredients"
  /\ last.names = <<Egg, Oat>>

\* what C3 says of one answered request: each tag name of a successful write has
\* exactly one row afterwards, linked to the recipe; a name that had a row keeps
\* that row; the rows added are one per new name, named as normalized
TagsResolved(recipe, recipe_id, r) ==
  LET names == Range(FlattenNames(recipe.tags))
      fresh == {n \in names : TagsNamed(db, n) = {}}
      added == get_tags(r.db) \ get_tags(db)
  IN r.status = 200 =>
       /\ get_tags(db) \subseteq get_tags(r.db)
       /\ \A n \in names :
            /\ Cardinality(TagsNamed(r.db, n)) = 1
            /\ \E x \in r.db.recipetags :
                 x.recipe_id = recipe_id /\ x.tag_id = First(TagsNamed(r.db, n)).id
       /\ {t.name : t \in added} = fresh
       /\ Cardinality(added) = Cardinality(fresh)

\* C3: a successful create_recipe or update_recipe that names a tag with no row
\* adds exactly one row with the normalized name, which get_tags then returns; a
\* name that has a row (compared in lower case) resolves to it and adds none.
C3_TagsAutoCreatedOnce ==
  /\ \A q \in CreateRequests : \A r \in {Created(q)} :
       TagsResolved(q.recipe, db.recipe_seq, r)
  /\ \A q \in UpdateRequests : \A r \in {Updated(q)} :
       TagsResolved(q.recipe, q.id, r)

\* C3 witness: after a successful update the recipe has two tags, veg (which
\* had its row) and hot.
C3_Witness ==
  /\ last.op = "update_recipe" /\ last.status = 200
  /\ {t.name : t \in db.tags} = {Veg, Hot}
  /\ \E t \in db.tags : t.name = Veg /\ t.id = 1
  /\ Cardinality(db.recipetags) = 2

\* C5: registrations served one after another from an empty table: the first
\* registered user (the least id) is the admin, every later user is not.
C5_FirstUserIsAdmin ==
  \A u \in db.users : u.is_admin <=> (\A v \in db.users : u.id <= v.id)

\* C5 witness: two users are registered.
C5_Witness == last.op = "register" /\ last.status = 200 /\ Cardinality(db.users) = 2

\* C7 as claimed: a recipe write by a caller who is not an admin is refused and
\* changes no recipe.
C7_AsClaimed ==
  /\ \A q \in CreateRequests : \A r \in {Created(q)} :
       ~q.user.is_admin => (r.status # 200 /\ r.db = db)
  /\ \A q \in UpdateRequests : \A r \in {Updated(q)} :
       ~q.user.is_admin => (r.status # 200 /\ r.db = db)

\* C7 (amended): editing is gated by the admin role or authorship, creating is
\* not gated: an update_recipe of an existing recipe by a caller who is neither
\* an admin nor the recipe's recorded author is refused with 403 and changes
\* nothing; no create_recipe is refused for the caller's role.
C7_EditGatedByAdminOrOwner ==
  /\ \A q \in UpdateRequests :
       (/\ \E x \in db.recipes : x.id = q.id
        /\ ~q.user.is_admin
        /\ ~\E a \in db.recipe_authors : a.recipe_id = q.id /\ a.user_id = q.user.id)
       => \A r \in {Updated(q)} : r.status = 403 /\ r.db = db
  /\ \A q \in CreateRequests : Created(q).status # 403

\* C7 witness: an update of an admin's recipe was refused with 403.
C7_Witness ==
  /\ last.op = "update_recipe" /\ last.status = 403
  /\ \E a \in db.recipe_authors : \E u \in db.users :
       u.id = a.user_id /\ u.is_admin


(***************************************************************************)
(* Properties of favorites and likes, one request at a time (SpecSocial)   *)
(***************************************************************************)

\* C8: add_recipe_favorite is idempotent and remove_recipe_favorite is total:
\* for an existing recipe and a user, two add calls in a row both succeed and
\* leave exactly one row for the (recipe, user) pair; a remove call for a pair
\* with no row succeeds and changes nothing, whether or not the recipe exists.
C8_FavoriteIdempotent ==
  \A u \in db.users : \A id \in RecipeIds :
    /\ (\E x \in db.recipes : x.id = id) =>
         \A first \in {add_recipe_favorite(db, db, id, u.id)} :
           \A second \in {add_recipe_favorite(first.db, first.db, id, u.id)} :
             /\ first.status = 200 /\ second.status = 200
             /\ CopiesIn(Favorite(id, u.id), first.db.recipe_favorites) = 1
             /\ second.db = first.db
    /\ ~BagIn(Favorite(id, u.id), db.recipe_favorites) =>
         \A r \in {remove_recipe_favorite(db, db, id, u.id)} :
           r.status = 200 /\ r.db = db

\* C8 witness: an add for a pair already in the table was answered; the pair's
\* row is there once.
C8_Witness ==
  /\ last.op = "add_recipe_favorite" /\ last.detail = "already_favorite"
  /\ \E f \in BagToSet(db.recipe_favorites) : CopiesIn(f, db.recipe_favorites) = 1

\* C9 as claimed: for every comment and user, whatever recipe the request
\* names, two add_comment_like calls leave exactly one like row and a
\* remove_comment_like with no like row succeeds and changes nothing.
C9_AsClaimed ==
  \A u \in db.users : \A c \in db.recipe_comments : \A id \in RecipeIds :
    /\ \A first \in {add_comment_like(db, db, id, c.id, u.id)} :
         \A second \in {add_comment_like(first.db, first.db, id, c.id, u.id)} :
           CopiesIn(Like(c.id, u.id), second.db.comment_likes) = 1
    /\ ~BagIn(Like(c.id, u.id), db.comment_likes) =>
         \A r \in {remove_comment_like(db, db, id, c.id, u.id)} :
           r.status = 200 /\ r.db = db

\* C9 (amended): for a comment that exists under the recipe the request names,
\* two add_comment_like calls in a row both succeed and leave exactly one like
\* row for the (comment, user) pair, and a remove_comment_like for a pair with
\* no like row succeeds and changes nothing; for a comment id that is not a
\* comment of the named recipe both calls answer 404 and write nothing.
C9_LikeIdempotent ==
  \A u \in db.users : \A id \in RecipeIds : \A c \in CommentIds :
    \A first \in {add_comment_like(db, db, id, c, u.id)} :
      \A r \in {remove_comment_like(db, db, id, c, u.id)} :
        IF CommentExists(db, id, c)
        THEN /\ \A second \in {add_comment_like(first.db, first.db, id, c, u.id)} :
                  /\ first.status = 200 /\ second.status = 200
                  /\ CopiesIn(Like(c, u.id), first.db.comment_likes) = 1
                  /\ second.db = first.db
             /\ ~BagIn(Like(c, u.id), db.comment_likes) =>
                  r.status = 200 /\ r.db = db
        ELSE /\ first.status = 404 /\ first.db = db
             /\ r.status = 404 /\ r.db = db

\* C9 witness: an add for a pair already in the table was answered; the pair's
\* like row is there once.
C9_Witness ==
  /\ last.op = "add_comment_like" /\ last.detail = "already_liked"
  /\ \E l \in BagToSet(db.comment_likes) : CopiesIn(l, db.comment_likes) = 1

(***************************************************************************)
(* Properties of overlapping requests                                      *)
(***************************************************************************)

\* C4: in every state reached by any interleaving of create_ingredient,
\* update_ingredient, create_tag, create_recipe and update_recipe, no two
\* ingredient rows and no two tag rows have names equal after lower-casing.
C4_NamesUniqueIgnoringCase ==
  /\ \A a \in db.ingredients : \A b \in db.ingredients :
       a # b => Lower(a.name) # Lower(b.name)
  /\ \A a \in db.tags : \A b \in db.tags :
       a # b => Lower(a.name) # Lower(b.name)

\* C4 witness: a create_recipe that found no row for its tag when it read the
\* catalog was refused at its INSERT, the tag having been created in between.
C4_Witness ==
  /\ last.op = "create_recipe" /\ last.detail = "integrity_error"
  /\ db.tags # {}

\* C6 as claimed: whenever a user is registered, exactly one user is admin,
\* under every interleaving of register requests and the startup step.
C6_ExactlyOneAdmin ==
  db.users # {} => Cardinality({u \in db.users : u.is_admin}) = 1

\* a request in flight that has read no row for its pair while the store now
\* holds one: the loser of a race
LostRace(req) ==
  \/ /\ req.op = "add_recipe_favorite"
     /\ \E x \in req.seen.recipes : x.id = req.id
     /\ ~BagIn(Favorite(req.id, req.user.id), req.seen.recipe_favorites)
     /\ BagIn(Favorite(req.id, req.user.id), db.recipe_favorites)
  \/ /\ req.op = "add_comment_like"
     /\ CommentExists(req.seen, req.id, req.comment_id)
     /\ ~BagIn(Like(req.comment_id, req.user.id), req.seen.comment_likes)
     /\ BagIn(Like(req.comment_id, req.user.id), db.comment_likes)

\* C10: under every interleaving of add_recipe_favorite requests and of
\* add_comment_like requests on one pair, the store holds each pair at most
\* once, and a request that lost the race is refused and writes nothing.
C10_OneRowPerPair ==
  /\ \A f \in BagToSet(db.recipe_favorites) : CopiesIn(f, db.recipe_favorites) = 1
  /\ \A l \in BagToSet(db.comment_likes) : CopiesIn(l, db.comment_likes) = 1
  /\ \A req \in BagToSet(inflight) :
       LostRace(req) =>
         \A r \in {Handle(db, req)} : r.status = 500 /\ r.db = db

\* C10 witness: an add_recipe_favorite that lost the race was refused; the
\* winner's row is in the table.
C10_Witness ==
  /\ last.op = "add_recipe_favorite" /\ last.status = 500
  /\ db.recipe_favorites # EmptyBag


(***************************************************************************)
(* Properties of deletions                                                 *)
(***************************************************************************)

\* no row of the store d names a recipe or a comment that is not there
NoOrphans(d) ==
  /\ \A f \in DOMAIN d.recipe_favorites : \E x \in d.recipes : x.id = f.recipe_id
  /\ \A a \in d.recipe_authors : \E x \in d.recipes : x.id = a.recipe_id
  /\ \A c \in d.recipe_comments : \E x \in d.recipes : x.id = c.recipe_id
  /\ \A k \in DOMAIN d.comment_likes :
       \E c \in d.recipe_comments : c.id = k.comment_id
  /\ \A a \in d.comment_authors :
       \E c \in d.recipe_comments : c.id = a.comment_id

\* no row of the store d names the recipe
NothingOfRecipe(d, recipe_id) ==
  /\ \A x \in d.recipes : x.id # recipe_id
  /\ \A f \in DOMAIN d.recipe_favorites : f.recipe_id # recipe_id
  /\ \A a \in d.recipe_authors : a.recipe_id # recipe_id
  /\ \A c \in d.recipe_comments : c.recipe_id # recipe_id
  /\ \A x \in d.recipe_ingredients : x.recipe_id # recipe_id
  /\ \A x \in d.recipetags : x.recipe_id # recipe_id

C12_IngredientInUseKept ==
  /\ \A x \in db.recipe_ingredients :
       \E i \in db.ingredients : i.id = x.ingredient_id
  /\ \A id \in IngredientIds :
       (\E x \in db.recipe_ingredients : x.ingredient_id = id) =>
         \A r \in {delete_ingredient(db, db, id)} :
           r.status = 500 /\ r.detail = "ingredient_in_use" /\ r.db = db

\* C12 witness: a delete_ingredient was refused because the ingredient is in
\* use; the association row is there.
C12_Witness ==
  /\ last.op = "delete_ingredient" /\ last.detail = "ingredient_in_use"
  /\ db.recipe_ingredients # {}

(***************************************************************************)
(* Properties of presence                                                  *)
(***************************************************************************)

\* the key of a presence row as a triple: user and user-agent as stored, user
\* and device, or the device alone
StoredKey(row) ==
  IF row.user_id # NoUser /\ row.user_agent # None /\ Strip(row.user_agent) # <<>>
  THEN [kind |-> "agent", user |-> row.user_id, of |-> row.user_agent]
  ELSE IF row.user_id # NoUser
       THEN [kind |-> "device", user |-> row.user_id, of |-> row.device_id]
       ELSE [kind |-> "anon", user |-> NoUser, of |-> row.device_id]

\* the same triple with the user-agent compared without regard to letter case
\* and surrounding whitespace
FoldedKey(row) ==
  IF StoredKey(row).kind = "agent"
  THEN [StoredKey(row) EXCEPT !.of = Lower(Strip(@))]
  ELSE StoredKey(row)

\* C13 as stated: for every window the online count is the number of distinct
\* keys (user, user-agent), (user, device id) or device id over the rows in the
\* window, the user-agent being the stored one.
C13_AsClaimed ==
  \A w \in Windows :
    get_online_device_count(db, w, now) =
      Cardinality({StoredKey(row) : row \in RowsInWindow(db, w, now)})

\* C13: for every window the online count is the number of distinct keys over
\* the rows in the window, where the user-agent of a (user, user-agent) key is
\* compared trimmed and without regard to letter case; two rows in the window
\* with the same user and the same non-blank user-agent count as one whatever
\* their devices, and two rows of different users, or of a user and of no user,
\* never count as one.
C13_CountIsDistinctFoldedKeys ==
  \A w \in Windows :
    \A rows \in {RowsInWindow(db, w, now)} :
      /\ get_online_device_count(db, w, now) =
           Cardinality({FoldedKey(row) : row \in rows})
      /\ \A a \in rows : \A b \in rows :
           /\ (a.user_id # NoUser /\ a.user_id = b.user_id
                 /\ a.user_agent # None /\ a.user_agent = b.user_agent)
                => get_online_device_count(
                     [db EXCEPT !.online_device_presence = {a, b}], w, now) = 1
           /\ (a.user_id # b.user_id)
                => get_online_device_count(
                     [db EXCEPT !.online_device_presence = {a, b}], w, now) = 2

\* C13 witness: two devices of one user with one user-agent, seen at different
\* times, are inside the 31-second window and count as one there, and only one
\* of them is inside the 30-second window.
C13_Witness ==
  /\ last.op = "presence_heartbeat"
  /\ \E a \in RowsInWindow(db, 31, now) : \E b \in RowsInWindow(db, 31, now) :
       /\ a.device_id # b.device_id
       /\ a.user_id # NoUser /\ a.user_id = b.user_id
       /\ a.user_agent # None /\ a.user_agent = b.user_agent
       /\ a.last_seen_at # b.last_seen_at
  /\ get_online_device_count(db, 31, now) = 1
  /\ Cardinality(RowsInWindow(db, 31, now)) = 2
  /\ Cardinality(RowsInWindow(db, 30, now)) = 1

\* the rows last seen within the trailing seconds before now
SeenWithin(seconds) ==
  {row \in db.online_device_presence : now - row.last_seen_at <= seconds}

\* the count of distinct keys over a set of rows
KeysOf(rows) == Cardinality({FoldedKey(row) : row \in rows})

\* C14 as stated: for every configured window w the count is taken over exactly
\* the rows last seen within the trailing max(30, w) seconds.
C14_AsClaimed ==
  \A w \in Windows :
    /\ RowsInWindow(db, w, now) = SeenWithin(IF w < 30 THEN 30 ELSE w)
    /\ get_online_device_count(db, w, now)
         = KeysOf(SeenWithin(IF w < 30 THEN 30 ELSE w))

\* C14: for every configured window w other than 0 the count is taken over
\* exactly the rows last seen within the trailing max(30, w) seconds, a row seen
\* exactly that long ago included; a configured window of 0 counts the rows of
\* the trailing 300 seconds.
C14_WindowClamped ==
  \A w \in Windows :
    \A seconds \in {IF w = 0 THEN 300 ELSE IF w < 30 THEN 30 ELSE w} :
      /\ RowsInWindow(db, w, now) = SeenWithin(seconds)
      /\ get_online_device_count(db, w, now) = KeysOf(SeenWithin(seconds))

\* C14 witness: a device was last seen 31 seconds ago and another now; the
\* windows 29 and 30 count one of them, the windows 31 and 0 both.
C14_Witness ==
  /\ \E a \in db.online_device_presence : now - a.last_seen_at = 31
  /\ get_online_device_count(db, 29, now) = 1
  /\ get_online_device_count(db, 30, now) = 1
  /\ get_online_device_count(db, 31, now) = 2
  /\ get_online_device_count(db, 0, now) = 2

\* the rows of the store d for a device id
RowsOfDevice(d, device_id) ==
  {row \in d.online_device_presence : row.device_id = device_id}

\* C15: in every state there is at most one presence row per device id; and a
\* heartbeat for a device id (surrounding whitespace apart) that has a row
\* leaves that device one row, last seen now, whose user id is the heartbeat's
\* if it carries one and the stored one if not, whose user-agent is the
\* heartbeat's, trimmed, if that is non-blank and the stored one if not, and
\* leaves every other device's row as it was.
C15_OneRowPerDeviceTouched ==
  /\ \A a \in db.online_device_presence : \A b \in db.online_device_presence :
       a.device_id = b.device_id => a = b
  /\ \A device_id \in DeviceIds, user_agent \in UserAgents,
        user_id \in {NoUser} \cup {u.id : u \in db.users} :
       \A old \in RowsOfDevice(db, Strip(device_id)) :
         \A r \in {touch_online_device(db, db, device_id, user_id,
                                       user_agent, now)} :
           /\ r.status = 200
           /\ \E new \in r.db.online_device_presence :
                /\ RowsOfDevice(r.db, Strip(device_id)) = {new}
                /\ new.last_seen_at = now
                /\ new.user_id = IF user_id # NoUser THEN user_id
                                 ELSE old.user_id
                /\ new.user_agent =
                     IF user_agent # None /\ Strip(user_agent) # <<>>
                     THEN Strip(user_agent) ELSE old.user_agent
           /\ r.db.online_device_presence \ RowsOfDevice(r.db, Strip(device_id))
                = db.online_device_presence \ {old}
           /\ r.db = [db EXCEPT !.online_device_presence =
                                   r.db.online_device_presence]

\* C15 witness: after a heartbeat at second 31 a device that carries a user id
\* and a user-agent is last seen now, and the other device's row is still the
\* one of second 0.
C15_Witness ==
  /\ last.op = "presence_heartbeat" /\ last.detail = "touched"
  /\ now = 31
  /\ \E a \in db.online_device_presence : \E b \in db.online_device_presence :
       /\ a.device_id # b.device_id
       /\ a.last_seen_at = now /\ a.user_id # NoUser /\ a.user_agent # None
       /\ b.last_seen_at = 0

\* an offline signal for device_id in the current state removes the rows of that
\* device (surrounding whitespace apart) and nothing else, so that every count
\* is the count without that device; with no such row it changes nothing
OfflineRemovesOnly(device_id) ==
  \A r \in {remove_online_device(db, db, device_id)} :
    \A gone \in {RowsOfDevice(db, Strip(device_id))} :
      /\ r.status = 200
      /\ r.db = [db EXCEPT !.online_device_presence = @ \ gone]
      /\ RowsOfDevice(r.db, Strip(device_id)) = {}
      /\ gone = {} => r.db = db
      /\ \A w \in Windows :
           get_online_device_count(r.db, w, now)
             = KeysOf(RowsInWindow(db, w, now) \ gone)

\* C16: an offline signal removes the row of its device and no other row, and
\* changes nothing when the device has no row; and a device without a row gets
\* one only by a heartbeat for it, so that until then no count includes it.
C16_OfflineUntilHeartbeat ==
  [][ /\ \A device_id \in DeviceIds : OfflineRemovesOnly(device_id)
      /\ \A device_id \in DeviceIds :
           (RowsOfDevice(db, device_id) = {}
              /\ RowsOfDevice(db', device_id) # {})
             => /\ last'.op = "presence_heartbeat"
                /\ \A row \in RowsOfDevice(db', device_id) :
                     row.last_seen_at = now
                /\ db'.online_device_presence
                     \ RowsOfDevice(db', device_id)
                     = db.online_device_presence ]_vars

\* C16 witness: an offline signal removed a device's row while the other device
\* stays counted.
C16_Witness ==
  /\ last.op = "presence_offline" /\ last.detail = "removed"
  /\ Cardinality(db.online_device_presence) = 1
  /\ get_online_device_count(db, ONLINE_DEVICE_WINDOW_SECONDS, now) = 1

(***************************************************************************)
(* Properties of quantities                                                *)
(***************************************************************************)

\* the ways to read the text s as one or more digits, optionally '.' or ',' and
\* one or more digits, then whitespace, then a unit in any letter case: the
\* (number, unit) pairs
QuantityReadings(s) ==
  { [number |-> SubSeq(s, 1, n), unit |-> Lower(SubSeq(s, u + 1, Len(s)))] :
      <<n, u>> \in
        { <<n, u>> \in (1..Len(s)) \X (1..Len(s)) :
            /\ n <= u
            /\ \/ Range(SubSeq(s, 1, n)) \subseteq Digits
               \/ \E k \in 2..(n - 1) :
                    /\ s[k] \in {".", ","}
                    /\ Range(SubSeq(s, 1, k - 1)) \subseteq Digits
                    /\ Range(SubSeq(s, k + 1, n)) \subseteq Digits
            /\ \A j \in (n + 1)..u : s[j] \in {" ", "\n"}
            /\ Lower(SubSeq(s, u + 1, Len(s))) \in
                 { <<"m","l">>, <<"c","l">>, <<"d","l">>, <<"l">>, <<"m","g">>,
                   <<"g">>, <<"k","g">>, <<"s","t">> } } }

\* "<number with '.'> <unit>" of a reading
QuantityText(reading) ==
  [i \in 1..Len(reading.number) |->
     IF reading.number[i] = "," THEN "." ELSE reading.number[i]]
    \o <<" ">> \o reading.unit

\* the text without its whitespace characters
WithoutWhitespace(s) == SelectSeq(s, LAMBDA c : c \notin {" ", "\n"})

\* the result of parsing the raw quantity of the state agrees with the readings
\* of text: no quantity for an absent or blank raw quantity, the text of a
\* reading if there is one, a validation error if there is none
ParsedAs(text) ==
  IF last.raw = None \/ WithoutWhitespace(last.raw) = <<>>
  THEN last.ok /\ last.value = None
  ELSE IF QuantityReadings(text) = {}
       THEN ~last.ok
       ELSE last.ok /\ \A reading \in QuantityReadings(text) :
                         last.value = QuantityText(reading)

\* C17 as stated: a quantity is accepted exactly if, surrounding whitespace
\* apart, it is digits, an optional decimal part, optional whitespace and a
\* unit, whitespace elsewhere being rejected.
C17_AsClaimed ==
  last.op = "_normalize_quantity" => ParsedAs(Strip(last.raw))

\* C17: a quantity is accepted exactly if, all its whitespace removed, it is one
\* or more digits, an optional decimal part introduced by '.' or ',' and one
\* unit of ml, cl, dl, l, mg, g, kg, st in any letter case, and the result is
\* the number with '.', one space and the unit in lower case; every other
\* non-blank string is rejected, and a blank or absent one is no quantity.
C17_AcceptsCompactForm ==
  last.op = "_normalize_quantity" => ParsedAs(WithoutWhitespace(last.raw))

\* C17 witness: "1,5 \n L" was parsed to "1.5 l".
C17_Witness ==
  /\ last.op = "_normalize_quantity"
  /\ last.raw = <<"1",",","5","\n"," ","l">>
  /\ last.ok /\ last.value = <<"1",".","5"," ","l">>

\* the normalized form: digits, optionally '.' and digits, one space, a unit in
\* lower case
IsNormalizedQuantity(q) ==
  \E n \in 1..Len(q) :
    /\ n < Len(q) /\ q[n + 1] = " "
    /\ SubSeq(q, n + 2, Len(q)) \in
         { <<"m","l">>, <<"c","l">>, <<"d","l">>, <<"l">>, <<"m","g">>,
           <<"g">>, <<"k","g">>, <<"s","t">> }
    /\ \/ Range(SubSeq(q, 1, n)) \subseteq Digits
       \/ \E k \in 2..(n - 1) :
            /\ q[k] = "."
            /\ Range(SubSeq(q, 1, k - 1)) \subseteq Digits
            /\ Range(SubSeq(q, k + 1, n)) \subseteq Digits

\* C18: in every reachable state the quantity of every (recipe, ingredient)
\* association is absent or in the normalized form; no recipe write stores a raw
\* quantity.
C18_StoredQuantitiesNormalized ==
  \A row \in db.recipe_ingredients :
    row.quantity = None \/ IsNormalizedQuantity(row.quantity)

\* C18 witness: an update_recipe with the raw quantity "1,5 L" stored "1.5 l".
C18_Witness ==
  /\ last.op = "update_recipe" /\ last.status = 200
  /\ \E row \in db.recipe_ingredients : row.quantity = <<"1",".","5"," ","l">>

(***************************************************************************)
(* Properties of error outcomes                                            *)
(***************************************************************************)

\* the HTTP status of a Conflict outcome
Conflict == 409

\* C19: create_ingredient and create_tag with a name that the catalog has
\* already, letter case and surrounding whitespace apart, and a registration
\* with an existing username, are answered with Conflict (not with the status
\* of a validation failure, 400, or of a generic failure, 500) and leave the
\* store unchanged.
C19_DuplicateIsConflict ==
  /\ \A name \in IngredientNames :
       (\E i \in db.ingredients : Lower(i.name) = Lower(Strip(name))) =>
         \A r \in {create_ingredient(db, db, name)} :
           r.status = Conflict /\ r.db = db
  /\ \A name \in TagNames :
       (\E t \in db.tags : Lower(t.name) = Lower(Strip(name))) =>
         \A r \in {create_tag(db, name)} :
           r.status = Conflict /\ r.db = db
  /\ \A username \in Usernames :
       (\E u \in db.users : u.username = Lower(Strip(username))) =>
         \A r \in {register(db, db, username, <<"s","e","c","r","e","t">>)} :
           r.status = Conflict /\ r.db = db

\* C20: for every authenticated caller, removing a comment id that no comment
\* has, on a recipe that exists, is answered with NotFound (404).
C20_MissingCommentNotFound ==
  \A u \in CurrentUsers : \A x \in db.recipes : \A c \in CommentIds :
    (\A comment \in db.recipe_comments : comment.id # c) =>
      remove_recipe_comment(db, db, x.id, c, u).status = 404

(***************************************************************************)
(* Properties of comment removal and of authorship                         *)
(***************************************************************************)

AuthorsOf(d, recipe_id) == {a \in d.recipe_authors : a.recipe_id = recipe_id}

\* C22: every recipe of the store has exactly one author link; every step
\* leaves the link of a recipe that is still there as it was and gives a recipe
\* that is new the link of one user; and update_recipe, whoever of the users
\* asks for it and whatever it answers, leaves the author links unchanged.
C22_OneAuthorNeverReassigned ==
  [][ /\ \A x \in db.recipes : Cardinality(AuthorsOf(db, x.id)) = 1
      /\ \A x \in db'.recipes : Cardinality(AuthorsOf(db', x.id)) = 1
      /\ \A x \in db.recipes :
           (\E y \in db'.recipes : y.id = x.id)
             => AuthorsOf(db', x.id) = AuthorsOf(db, x.id)
      /\ \A u \in CurrentUsers, id \in RecipeIds, recipe \in DeletionRecipeInputs :
           main_update_recipe(db, db, id, recipe, u).db.recipe_authors
             = db.recipe_authors ]_vars

\* C22 witness: an update_recipe succeeded on a recipe whose author is not the
\* admin; the recipe has the ingredient of the update, the author link is the
\* author's, and an update by the admin succeeds here too.
C22_Witness ==
  /\ last.op = "update_recipe" /\ last.status = 200
  /\ db.recipe_ingredients # {}
  /\ \E a \in db.recipe_authors : \E u \in db.users :
       /\ u.id = a.user_id /\ ~u.is_admin
       /\ \E admin \in db.users :
            /\ admin.is_admin
            /\ main_update_recipe(db, db, a.recipe_id, PlainRecipe, admin).status
                 = 200

(***************************************************************************)
(* Properties of search                                                    *)
(***************************************************************************)

\* the term occurs in the text as a substring, letter case apart
OccursIn(text, t) ==
  /\ text # None
  /\ \E i \in 1..(Len(text) - Len(t) + 1) :
       Lower(SubSeq(text, i, i + Len(t) - 1)) = Lower(t)

\* the term occurs in a field of the recipe x that the scope names
TermInScope(x, t, scope) ==
  LET InName == OccursIn(x.title, t) \/ OccursIn(x.description, t)
      InIngredients ==
        \E link \in db.recipe_ingredients : \E i \in db.ingredients :
          link.recipe_id = x.id /\ i.id = link.ingredient_id /\ OccursIn(i.name, t)
      InTags ==
        \E link \in db.recipetags : \E tag \in db.tags :
          link.recipe_id = x.id /\ tag.id = link.tag_id /\ OccursIn(tag.name, t)
  IN IF scope = <<"n","a","m","e">> THEN InName
     ELSE IF scope = <<"i","n","g","r","e","d","i","e","n","t","s">>
     THEN InIngredients
     ELSE IF scope = <<"t","a","g","s">> THEN InTags
     ELSE InName \/ InIngredients \/ InTags

\* C23: a search that is answered returns exactly the recipes in which every
\* term of the tokenized query occurs, as a substring and letter case apart, in
\* a field of the scope, each term in a field of its own; a query without a
\* non-empty term returns every recipe.
C23_SearchIsSubstringMatch ==
  (last.op = "search" /\ last.status = 200) =>
    \A terms \in {_split_terms(last.query)} :
      last.ids =
        {x.id : x \in {x \in db.recipes :
                         \A k \in 1..Len(terms) :
                           TermInScope(x, terms[k], Lower(Strip(last.scope)))}}

(***************************************************************************)
(* Properties of the associations and of the names of a recipe write       *)
(***************************************************************************)

\* the association rows a request asks for on a recipe: for each name of each
\* entry the catalog's ingredient of that name, with the entry's normalized
\* quantity
RowsAskedFor(recipe_id, recipe) ==
  Only({ {[recipe_id |-> recipe_id,
           ingredient_id |-> hit[2].id,
           quantity |-> entries[hit[1]].quantity]
            : hit \in {hit \in (1..Len(entries)) \X db.ingredients :
                         hit[2].name = entries[hit[1]].name}}
         : entries \in {_extract_ingredient_entries(recipe.ingredients).entries} })

\* C24: an update_recipe that succeeds leaves the recipe with exactly the
\* association rows the request asks for: one per resolved ingredient, with the
\* normalized quantity of this request or none where the request has none,
\* whatever quantity the row had before; the rows of other recipes are as they
\* were.
C24_UpdateOverwritesQuantities ==
  \A u \in CurrentUsers, id \in RecipeIds, recipe \in RecipeInputs :
    \A r \in {main_update_recipe(db, db, id, recipe, u)} :
      r.status = 200 =>
        /\ {x \in r.db.recipe_ingredients : x.recipe_id = id}
             = RowsAskedFor(id, recipe)
        /\ {x \in r.db.recipe_ingredients : x.recipe_id # id}
             = {x \in db.recipe_ingredients : x.recipe_id # id}
        /\ \A x \in r.db.recipe_ingredients : \A y \in r.db.recipe_ingredients :
             (x.recipe_id = y.recipe_id /\ x.ingredient_id = y.ingredient_id)
               => x = y

\* C24 witness: after an update_recipe the recipe has an ingredient with a
\* quantity, and an update that names this ingredient without a quantity
\* succeeds here and leaves it none.
C24_Witness ==
  /\ last.op = "update_recipe" /\ last.status = 200
  /\ \E x \in db.recipe_ingredients : \E u \in CurrentUsers :
       \E recipe \in RecipeInputs :
         \A r \in {main_update_recipe(db, db, x.recipe_id, recipe, u)} :
           /\ x.quantity # None
           /\ r.status = 200
           /\ \E y \in r.db.recipe_ingredients :
                /\ y.recipe_id = x.recipe_id /\ y.ingredient_id = x.ingredient_id
                /\ y.quantity = None

\* the elements of a set of numbers in ascending order
Ascending(S) ==
  [k \in 1..Cardinality(S) |->
     CHOOSE i \in S : Cardinality({j \in S : j < i}) = k - 1]

\* the names of a text: its maximal runs of characters other than ',', ';', ':'
\* and newline, each trimmed and in lower case, the empty ones left out, in order
NamesIn(text) ==
  LET Delimiter(i) == text[i] \in {",", ";", ":", "\n"}
      starts == {i \in 1..Len(text) :
                   ~Delimiter(i) /\ (i = 1 \/ Delimiter(i - 1))}
      EndOf(i) == CHOOSE j \in i..Len(text) :
                    /\ \A m \in i..j : ~Delimiter(m)
                    /\ (j = Len(text) \/ Delimiter(j + 1))
      runs == [k \in 1..Cardinality(starts) |->
                 Lower(Strip(SubSeq(text, Ascending(starts)[k],
                                    EndOf(Ascending(starts)[k]))))]
  IN SelectSeq(runs, LAMBDA name : name # <<>>)

RECURSIVE FlatNames(_)
\* the names of all the entries, in order
FlatNames(items) ==
  IF items = <<>> THEN <<>>
  ELSE NamesIn(Head(items).name) \o FlatNames(Tail(items))

\* the names that occur more than once, each once, in the order of their second
\* occurrences
Repeated(names) ==
  LET SecondAt(i) == Cardinality({j \in 1..i : names[j] = names[i]}) = 2
      at == Ascending({i \in 1..Len(names) : SecondAt(i)})
  IN [k \in 1..Len(at) |-> names[at[k]]]

\* some entry of the request has a quantity that does not parse
MalformedQuantity(items) ==
  \E k \in 1..Len(items) :
    /\ items[k].quantity # None
    /\ WithoutWhitespace(items[k].quantity) # <<>>
    /\ QuantityReadings(WithoutWhitespace(items[k].quantity)) = {}

\* C25 as stated: a write in which an ingredient name or a tag name occurs more
\* than once fails with a validation error that names the duplicated names,
\* each once, in the order of first repetition.
C25_AsClaimed ==
  last.op = "create_recipe" =>
    \A ing \in {Repeated(FlatNames(last.recipe.ingredients))} :
      \A tg \in {Repeated(FlatNames(last.recipe.tags))} :
        (ing # <<>> \/ tg # <<>>) =>
          /\ last.status = 400
          /\ last.names \in {ing, tg} \ {<<>>}

\* C25: the names of the ingredient and of the tag entries are the pieces
\* between ',', ';', ':' and newline, trimmed, in lower case, in order across
\* the entries; a write with a repeated name fails with a validation error and
\* stores nothing; the error names each repeated ingredient name once, in the
\* order of first repetition, unless a quantity is malformed, and each repeated
\* tag name likewise unless a quantity is malformed, an ingredient name is
\* repeated or an ingredient is unknown, which are reported instead; with no
\* repetition each extraction returns its names in first-seen order.
C25_DuplicateNamesReported ==
  last.op = "create_recipe" =>
    \A ing \in {FlatNames(last.recipe.ingredients)} :
      \A tg \in {FlatNames(last.recipe.tags)} :
        \A malformed \in {MalformedQuantity(last.recipe.ingredients)} :
          \A unknown \in {{n \in Range(ing) :
                             \A i \in last.before.ingredients : i.name # n}} :
            /\ last.tag_names.names = tg
            /\ last.tag_names.duplicates = Repeated(tg)
            /\ last.tag_names.ok <=> Repeated(tg) = <<>>
            /\ ~malformed =>
                 /\ last.entries.duplicates = Repeated(ing)
                 /\ last.entries.ok <=> Repeated(ing) = <<>>
                 /\ Repeated(ing) = <<>> =>
                      [k \in 1..Len(ing) |-> last.entries.entries[k].name] = ing
            /\ (Repeated(ing) # <<>> \/ Repeated(tg) # <<>>) =>
                 last.status = 400 /\ db = last.before
            /\ (~malformed /\ Repeated(ing) # <<>>) =>
                 /\ last.detail = "duplicate_ingredients"
                 /\ last.names = Repeated(ing)
            /\ (~malformed /\ Repeated(ing) = <<>> /\ unknown = {}
                  /\ Repeated(tg) # <<>>) =>
                 /\ last.detail = "duplicate_tags"
                 /\ last.names = Repeated(tg)
            /\ (Repeated(tg) # <<>>
                  /\ (malformed \/ Repeated(ing) # <<>> \/ unknown # {})) =>
                 last.detail # "duplicate_tags"
            /\ (~malformed /\ Repeated(ing) = <<>> /\ unknown = {}
                  /\ Repeated(tg) = <<>>) => last.status = 200

\* C25 witness: the write with the ingredient names egg, oat, oat, egg was
\* refused with the names oat, egg, in the order in which they repeat.
C25_Witness ==
  /\ last.op = "create_recipe" /\ last.status = 400
  /\ last.detail = "duplicate_ingredients"
  /\ FlatNames(last.recipe.ingredients) = <<Egg, Oat, Oat, Egg>>
  /\ last.names = <<Oat, Egg>>

====
